---- MODULE Spec2Model ----
(***************************************************************************)
(* Model of the prime-gap combined sieve (combined_sieve.cpp) and of the   *)
(* unknown-file reader of the estimator (gap_stats.cpp, kept here as       *)
(* src/unnamed/part_000).                                                  *)
(*                                                                         *)
(* Numbers are scaled down (P in {2, 3}, a handful of m) but every program *)
(* constant keeps its value.  The prime iterator yields every prime up to  *)
(* 101 and then only the primes at which the print schedule of             *)
(* method2_increment_print fires (the first prime at or above each         *)
(* multiple the schedule visits) plus a few primes in between, so that the *)
(* print boundaries of the model are those of the program.                 *)
(***************************************************************************)
EXTENDS Integers, Naturals, Sequences, FiniteSets, TLC

(***************************************************************************)
(* Bounds of the model.                                                    *)
(***************************************************************************)
MaxMStart == 2
MaxMInc == 3
SLExtra == 1
BigMStart == 50
MidMStart == 13

(***************************************************************************)
(* Program constants.                                                      *)
(***************************************************************************)
MILLION == 1000000
NEXT_MULT_SMALL == 10000
NEXT_MULT_DEFAULT == 100000
NEXT_MULT_THRESHOLD == 100000
ALL_TEN_LIMIT == 1000000000
WHEEL_INTERVAL_LIMIT == 80000
WHEEL_SMALL == 30
WHEEL_LARGE == 6
SL_MIN_FACTOR == 6
SL_MAX_FACTOR == 22
RLE_BASE == 48
(* The radix of the two-byte RLE code: 128 in the source, scaled with the  *)
(* sieve lengths so that a distance between unknowns can reach its square. *)
RLE_RADIX == 2

(***************************************************************************)
(* Arithmetic helpers.                                                     *)
(***************************************************************************)
RECURSIVE GCD(_, _)
GCD(a, b) == IF b = 0 THEN a ELSE GCD(b, a % b)

Min(a, b) == IF a <= b THEN a ELSE b

SetMin(S) == CHOOSE x \in S : \A y \in S : x <= y

SetMax(S) == CHOOSE x \in S : \A y \in S : x >= y

(* The primes the iterator yields, in order. *)
PrimeStream ==
    << 2, 3, 5, 7, 11, 13, 17, 19, 23, 29, 31, 37, 41, 43, 47, 53, 59, 61,
       67, 71, 73, 79, 83, 89, 97, 101,
       10007, 10009, 20011, 30011, 40009, 50021,
       100003, 200003, 300007, 400009, 500009,
       1000003, 1000033, 2000003, 3000017, 3000029 >>

NumPrimes == Len(PrimeStream)

(* primesieve::iterator it(start): index of the first prime > start. *)
IterAfter(start) ==
    SetMin({i \in 1..NumPrimes : PrimeStream[i] > start})

(* get_sieve_primes(P): the primes <= P. *)
get_sieve_primes(P) ==
    {PrimeStream[i] : i \in {j \in 1..NumPrimes : PrimeStream[j] <= P}}

RECURSIVE Product(_)
Product(S) ==
    IF S = {} THEN 1
    ELSE LET x == SetMin(S) IN x * Product(S \ {x})

(* K = P# / D  (K_stats / prob_prime_and_stats). *)
Primorial(P) == Product(get_sieve_primes(P))

KOf(c) == Primorial(c.p) \div c.d

(* mpz_prevprime(MAX_PRIME): the largest prime below MAX_PRIME. *)
LastPrimeOf(max_prime) ==
    SetMax({PrimeStream[i] : i \in {j \in 1..NumPrimes : PrimeStream[j] < max_prime}})

(***************************************************************************)
(* Configurations (struct Config after set_defaults and the checks of      *)
(* main).                                                                  *)
(***************************************************************************)
Ps == {2, 3}

Divisors(n) == {d \in 1..n : n % d = 0}

(* main(): sieve_length must lie in [6 P, 22 P]. *)
SieveLengthOK(c) ==
    /\ c.sieve_length >= SL_MIN_FACTOR * c.p
    /\ c.sieve_length <= SL_MAX_FACTOR * c.p

(* The m the runs start at: the least ones, and one large enough that      *)
(* m K lies beyond the primes sieved with, so that unknowns remain on      *)
(* both sides, and one for which m K + x meets the medium primes.          *)
MStarts == (1..MaxMStart) \cup {MidMStart, BigMStart}

ValidMiOf(c) ==
    {mi \in 0..(c.minc - 1) : GCD(c.mstart + mi, c.d) = 1}

MaxPrimes == {100, 1000010, 3000020}

(* An M_start of method 1 just below a multiple of the large prime 400009 *)
NearMStart == 400002

Configs ==
    {c \in [p : Ps, d : 1..6, mstart : MStarts \cup {NearMStart}, minc : 1..MaxMInc,
            sieve_length : 12..(18 + SLExtra), max_prime : MaxPrimes,
            rle : BOOLEAN, method1 : BOOLEAN] :
        /\ c.d \in Divisors(Primorial(c.p))
        /\ c.sieve_length \in (SL_MIN_FACTOR * c.p)..(SL_MIN_FACTOR * c.p + SLExtra)
        /\ SieveLengthOK(c)
        /\ ValidMiOf(c) # {}
        /\ (c.method1 => (c.max_prime # SetMax(MaxPrimes) /\ ~c.rle))
        /\ (c.mstart = NearMStart => (c.method1 /\ c.max_prime # 100))
        /\ ((c.max_prime # 100 /\ ~c.method1) => (c.mstart = 1 /\ c.minc = MaxMInc))}

(***************************************************************************)
(* Wheel / reindex builder (prime_gap_parallel, setup).                    *)
(***************************************************************************)
SieveInterval(c) == 2 * c.sieve_length + 1

(* coprime_composite[x] > 0: no prime of K divides x - SL. *)
coprime_composite(c, x) ==
    ~ \E prime \in get_sieve_primes(c.p) :
        /\ c.d % prime # 0
        /\ x >= c.sieve_length % prime
        /\ (x - (c.sieve_length % prime)) % prime = 0

coprime_X(c) == {x \in 0..(SieveInterval(c) - 1) : coprime_composite(c, x)}

reindex_m_wheel(c) ==
    GCD(c.d, IF SieveInterval(c) < WHEEL_INTERVAL_LIMIT THEN WHEEL_SMALL ELSE WHEEL_LARGE)

(* mod_low = (m_wheel * (K mod wheel) + wheel - SL mod wheel) mod wheel *)
ModLow(c, m_wheel) ==
    LET w == reindex_m_wheel(c)
    IN  (m_wheel * (KOf(c) % w) + w - (c.sieve_length % w)) % w

(* The test of coprime_composite alone, without the wheel. *)
WheelKeepsNoWheel(c, m_wheel, i) == coprime_composite(c, i)

(* coprime_composite[i] > 0 and gcd(mod_low + i, reindex_m_wheel) == 1 *)
WheelKeeps(c, m_wheel, i) ==
    /\ coprime_composite(c, i)
    /\ GCD(ModLow(c, m_wheel) + i, reindex_m_wheel(c)) = 1

(* i_reindex_wheel[m_wheel][i]: the running count of kept positions, 0 for *)
(* a position that is not kept.                                            *)
IReindexWheelRow(c, m_wheel) ==
    [i \in 0..(SieveInterval(c) - 1) |->
        IF WheelKeeps(c, m_wheel, i)
        THEN Cardinality({j \in 0..i : WheelKeeps(c, m_wheel, j)})
        ELSE 0]

WheelResidues(c) ==
    {r \in 0..(reindex_m_wheel(c) - 1) : GCD(reindex_m_wheel(c), r) = 1}

BuildIReindexWheel(c) ==
    [r \in WheelResidues(c) |-> IReindexWheelRow(c, r)]

(* i_reindex_wheel_count[m_wheel] *)
WheelCount(row) == Cardinality({i \in DOMAIN row : row[i] # 0})

(* valid_mi as the ascending list; m_reindex[mi] is the position in it. *)
RECURSIVE SortedSeq(_)
SortedSeq(S) ==
    IF S = {} THEN << >>
    ELSE LET x == SetMin(S) IN << x >> \o SortedSeq(S \ {x})

BuildValidMi(c) == SortedSeq(ValidMiOf(c))

(* The allocation without the write of the sentinel bit. *)
AllocCompositeNoSentinel(c, vmi, wheel) ==
    [mii \in 1..Len(vmi) |->
        LET m_wheel == (c.mstart + vmi[mii]) % reindex_m_wheel(c)
        IN  [idx \in 0..WheelCount(wheel[m_wheel]) |-> FALSE]]

(* The allocation without the extra entry for index 0. *)
AllocCompositeNoExtra(c, vmi, wheel) ==
    [mii \in 1..Len(vmi) |->
        LET m_wheel == (c.mstart + vmi[mii]) % reindex_m_wheel(c)
        IN  [idx \in 0..(WheelCount(wheel[m_wheel]) - 1) |-> idx = 0]]

(* composite[i].resize(count + 1, false); composite[i][0] = true *)
AllocComposite(c, vmi, wheel) ==
    [mii \in 1..Len(vmi) |->
        LET m_wheel == (c.mstart + vmi[mii]) % reindex_m_wheel(c)
        IN  [idx \in 0..WheelCount(wheel[m_wheel]) |-> idx = 0]]

(* calculate_thresholds_method2 is not part of the sources; the model draws *)
(* its result from the pairs the assertions after the call admit.          *)
ThresholdChoices(c) ==
    {<< SieveInterval(c), SieveInterval(c) >>,
     << SieveInterval(c), SieveInterval(c) + 12 >>,
     << SieveInterval(c) + 6, SieveInterval(c) + 12 >>}

(***************************************************************************)
(* State.                                                                  *)
(***************************************************************************)
VARIABLES
    config,           \* struct Config (max_prime is rewritten on cancel)
    pc,               \* position of the process in main / the sieve
    exit_code,        \* -1 while running, else the exit status
    valid_mi,         \* ascending list of the valid mi
    i_reindex_wheel,  \* [m_wheel -> [X -> index]]
    composite,        \* [mii -> [index -> BOOLEAN]]
    thresholds,       \* << SMALL_THRESHOLD, MEDIUM_THRESHOLD >>
    it,               \* prime iterator: index of the next prime it returns
    prime,            \* the loop variable prime
    stats,            \* method2_stats of prime_gap_parallel
    temp_stats,       \* method2_stats local to method2_small_primes
    g_control_c,      \* the cancel flag
    handler,          \* TRUE once signal(SIGINT, ...) has run
    signals,          \* number of SIGINTs delivered to the handler
    flag_reads,       \* the reads of g_control_c so far: phase and prime
    callbacks,        \* the last bulk search: its prime and its calls (mi, first)
    unknown_file,     \* the characters written to the unknown file
    lines,            \* the offsets save_unknowns wrote, line by line
    range_row,        \* the row of table range, << >> when absent
    m1,               \* method 1: mi, large_prime_queue, the searches made
    reader,           \* the estimator reading the unknown file
    codec,            \* one bitmap, its two encodings and their decodings
    store,            \* the result store: committed rows and open transaction
    est               \* the estimator process: position, exit status, tables

vars == << config, pc, exit_code, valid_mi, i_reindex_wheel, composite,
           thresholds, it, prime, stats, temp_stats, g_control_c, handler,
           signals, flag_reads, callbacks, unknown_file, lines, range_row,
           m1, reader, codec, store, est >>

SMALL_THRESHOLD == thresholds[1]
MEDIUM_THRESHOLD == thresholds[2]
SL == config.sieve_length
K == KOf(config)

(* method2_stats constructor *)
NewStats(threshold) ==
    [next_print |-> 0,
     next_mult |-> IF threshold <= NEXT_MULT_THRESHOLD
                   THEN NEXT_MULT_SMALL ELSE NEXT_MULT_DEFAULT]

InitCommon ==
    /\ pc = "main"
    /\ exit_code = -1
    /\ valid_mi = << >>
    /\ i_reindex_wheel = << >>
    /\ composite = << >>
    /\ thresholds = << 0, 0 >>
    /\ it = 1
    /\ prime = 0
    /\ stats = NewStats(0)
    /\ temp_stats = NewStats(0)
    /\ g_control_c = FALSE
    /\ handler = FALSE
    /\ signals = 0
    /\ flag_reads = {}
    /\ callbacks = [prime |-> 0, calls |-> << >>]
    /\ unknown_file = << >>
    /\ lines = << >>
    /\ range_row = << >>
    /\ reader = [pc |-> "idle"]

(***************************************************************************)
(* prime_gap_parallel: set-up up to the call of method2_small_primes.      *)
(***************************************************************************)
SetupAssertsOK(c) ==
    /\ ~coprime_composite(c, c.sieve_length)
    /\ Cardinality(coprime_X(c)) % 2 = 0

Setup ==
    /\ pc = "main"
    /\ ~config.method1
    /\ IF SetupAssertsOK(config)
       THEN \E th \in ThresholdChoices(config) :
              /\ th[1] >= SieveInterval(config)
              /\ th[2] >= th[1]
              /\ th[2] <= config.max_prime
              /\ thresholds' = th
              /\ valid_mi' = BuildValidMi(config)
              /\ i_reindex_wheel' = BuildIReindexWheel(config)
              /\ composite' = AllocComposite(config, valid_mi', i_reindex_wheel')
              /\ stats' = NewStats(th[1])
              /\ temp_stats' = NewStats(th[1])
              /\ it' = 1
              /\ prime' = 0
              /\ pc' = "small"
       ELSE /\ pc' = "abort"
            /\ UNCHANGED << thresholds, valid_mi, i_reindex_wheel, composite,
                            stats, temp_stats, it, prime >>
    /\ UNCHANGED << store, est, config, exit_code, g_control_c, handler, signals,
                    flag_reads, callbacks, unknown_file, lines, range_row,
                    m1, reader, codec >>

(***************************************************************************)
(* method2_increment_print: the print schedule.                            *)
(***************************************************************************)
IncrementPrint(st, p, LAST_PRIME) ==
    IF p >= st.next_print
    THEN LET all_ten == IF p > ALL_TEN_LIMIT THEN 1 ELSE 0
             next_next_mult == (5 + 4 * all_ten) * st.next_mult
             \* next_next_mult <= max_mult (10^11) holds for every value
             \* the model reaches
             grow == st.next_print = next_next_mult
             mult == IF grow THEN st.next_mult * 10 ELSE st.next_mult
             base == IF grow THEN 0 ELSE st.next_print
         IN  [next_print |-> Min(base + mult, LAST_PRIME), next_mult |-> mult]
    ELSE st

(***************************************************************************)
(* method2_small_primes (Phase A).                                         *)
(***************************************************************************)
(* The inner for loop that collects p_and_r: primes of K and of the wheel  *)
(* are skipped, the loop breaks after a prime >= next_print and ends at    *)
(* the first prime above SMALL_THRESHOLD.                                  *)
(* The scan that leaves out the prime it breaks at. *)
RECURSIVE BatchScanDropBoundary(_, _, _, _, _)
BatchScanDropBoundary(c, small_threshold, idx, next_print, acc) ==
    LET q == PrimeStream[idx]
    IN  IF q > small_threshold
        THEN [p_and_r |-> acc, it |-> idx + 1, prime |-> q]
        ELSE IF (c.d % q # 0 /\ q <= c.p) \/ (reindex_m_wheel(c) % q = 0)
        THEN BatchScanDropBoundary(c, small_threshold, idx + 1, next_print, acc)
        ELSE IF q >= next_print
        THEN [p_and_r |-> acc, it |-> idx + 1, prime |-> q]
        ELSE BatchScanDropBoundary(c, small_threshold, idx + 1, next_print,
                                   Append(acc, << q, KOf(c) % q >>))

RECURSIVE BatchScan(_, _, _, _, _)
BatchScan(c, small_threshold, idx, next_print, acc) ==
    LET q == PrimeStream[idx]
    IN  IF q > small_threshold
        THEN [p_and_r |-> acc, it |-> idx + 1, prime |-> q]
        ELSE IF (c.d % q # 0 /\ q <= c.p) \/ (reindex_m_wheel(c) % q = 0)
        THEN BatchScan(c, small_threshold, idx + 1, next_print, acc)
        ELSE IF q >= next_print
        THEN [p_and_r |-> Append(acc, << q, KOf(c) % q >>),
              it |-> idx + 1, prime |-> q]
        ELSE BatchScan(c, small_threshold, idx + 1, next_print,
                       Append(acc, << q, KOf(c) % q >>))

(* first: the least X >= 0 with a_prime | m K - SL + X *)
SmallFirst(c, m, a_prime, base_r) ==
    LET modulo == (base_r * m) % a_prime
        flip0 == modulo + a_prime - ((c.sieve_length + 1) % a_prime)
        flip == IF flip0 >= a_prime THEN flip0 - a_prime ELSE flip0
    IN  a_prime - flip - 1

(* firstIsEven: the number at position first is even *)
SmallFirstIsEven(c, m, first) ==
    LET centerOdd == (c.d % 2 = 0) /\ (m % 2 = 1)
        lowIsEven == (centerOdd = (c.sieve_length % 2 = 1))
        evenFromLow == (first % 2 = 0)
    IN  lowIsEven = evenFromLow

(* The crossoff loop started one stride late. *)
SmallCrossSkipFirst(c, m, a_prime, base_r) ==
    LET first == SmallFirst(c, m, a_prime, base_r)
        shift == IF a_prime > 2 THEN 2 * a_prime ELSE a_prime
        start == (IF a_prime > 2 /\ SmallFirstIsEven(c, m, first)
                  THEN first + a_prime ELSE first) + shift
    IN  IF first < SieveInterval(c)
        THEN {x \in start..(SieveInterval(c) - 1) : (x - start) % shift = 0}
        ELSE {}

(* The positions the crossoff loop of one (m, prime) writes. *)
SmallCross(c, m, a_prime, base_r) ==
    LET first == SmallFirst(c, m, a_prime, base_r)
        start == IF a_prime > 2 /\ SmallFirstIsEven(c, m, first)
                 THEN first + a_prime ELSE first
        shift == IF a_prime > 2 THEN 2 * a_prime ELSE a_prime
    IN  IF first < SieveInterval(c)
        THEN {x \in start..(SieveInterval(c) - 1) : (x - start) % shift = 0}
        ELSE {}

(* assert((first >= SIEVE_INTERVAL) || composite_mii[i_reindex_m[first]]) *)
SmallAssertOK(c, m, row, comp, a_prime, base_r) ==
    LET first == SmallFirst(c, m, a_prime, base_r)
    IN  (first < SieveInterval(c) /\ a_prime > 2 /\ SmallFirstIsEven(c, m, first))
            => comp[row[first]]

MarkAll(comp, row, X) ==
    LET hit == {row[x] : x \in X}
    IN  [idx \in DOMAIN comp |-> comp[idx] \/ idx \in hit]

(* All primes of one batch applied to the bitmap of one m, in order. *)
RECURSIVE SmallPrimesM(_, _, _, _, _)
SmallPrimesM(c, m, row, res, prs) ==
    IF prs = << >> THEN res
    ELSE LET pr == Head(prs)
         IN  SmallPrimesM(c, m, row,
                [comp |-> MarkAll(res.comp, row, SmallCross(c, m, pr[1], pr[2])),
                 ok |-> res.ok /\ SmallAssertOK(c, m, row, res.comp, pr[1], pr[2])],
                Tail(prs))

RowOf(c, wheel, mi) == wheel[(c.mstart + mi) % reindex_m_wheel(c)]

(* One pass of the while loop of method2_small_primes. *)
SmallPrimesBatch ==
    /\ pc = "small"
    /\ LET b == BatchScan(config, SMALL_THRESHOLD, it, temp_stats.next_print, << >>)
           res == [mii \in 1..Len(valid_mi) |->
                      SmallPrimesM(config, config.mstart + valid_mi[mii],
                                   RowOf(config, i_reindex_wheel, valid_mi[mii]),
                                   [comp |-> composite[mii], ok |-> TRUE],
                                   b.p_and_r)]
           print == b.prime >= temp_stats.next_print
       IN  IF \A mii \in 1..Len(valid_mi) : res[mii].ok
           THEN /\ composite' = [mii \in 1..Len(valid_mi) |-> res[mii].comp]
                /\ it' = b.it
                /\ prime' = b.prime
                /\ temp_stats' = IF print
                                 THEN IncrementPrint(temp_stats, b.prime, config.max_prime)
                                 ELSE temp_stats
                /\ flag_reads' = IF print
                                 THEN flag_reads \cup {[phase |-> "small", prime |-> b.prime]}
                                 ELSE flag_reads
                /\ pc' = IF b.prime <= SMALL_THRESHOLD THEN "small" ELSE "small_done"
           ELSE /\ pc' = "abort"
                /\ UNCHANGED << composite, it, prime, temp_stats, flag_reads >>
    /\ UNCHANGED << store, est, config, exit_code, valid_mi, i_reindex_wheel, thresholds,
                    stats, g_control_c, handler, signals, callbacks,
                    unknown_file, lines, range_row,
                    m1, reader, codec >>

(* exit(1) right after the loop over valid_mi_split. *)
ExitAfterSmallPrimes ==
    /\ pc = "small_done"
    /\ pc' = "exit"
    /\ exit_code' = 1
    /\ UNCHANGED << store, est, config, valid_mi, i_reindex_wheel, composite, thresholds,
                    it, prime, stats, temp_stats, g_control_c, handler,
                    signals, flag_reads, callbacks, unknown_file, lines,
                    range_row,
                    m1, reader, codec >>

(***************************************************************************)
(* prime_gap_parallel after Phase A: medium primes.                        *)
(***************************************************************************)
LAST_PRIME == LastPrimeOf(config.max_prime)

m_not_coprime(c, mi) == GCD(c.mstart + mi, c.d) # 1

(* m_reindex[mi]: the position of mi in valid_mi *)
m_reindex(vmi, mi) == CHOOSE mii \in 1..Len(vmi) : vmi[mii] = mi

(* primesieve::iterator it(SMALL_THRESHOLD); prime = it.next_prime() *)
EnterMedium ==
    /\ pc = "small_done"
    /\ prime' = PrimeStream[IterAfter(SMALL_THRESHOLD)]
    /\ it' = IterAfter(SMALL_THRESHOLD) + 1
    /\ pc' = "medium"
    /\ UNCHANGED << store, est, config, exit_code, valid_mi, i_reindex_wheel, composite,
                    thresholds, stats, temp_stats, g_control_c, handler,
                    signals, flag_reads, callbacks, unknown_file, lines,
                    range_row,
                    m1, reader, codec >>

(* mi_0 of one coprime X, after the parity step taken when K is odd *)
MediumMi0(c, p, X) ==
    LET base_r == KOf(c) % p
        inv_K == CHOOSE v \in 1..(p - 1) : (v * base_r) % p = 1
        m_start_shift == (p - (c.mstart % p)) % p
        M_X_parity == ((c.mstart % 2) + (c.sieve_length % 2)) % 2
        dist == X - c.sieve_length
        mi_0 == ((p - dist) * inv_K + m_start_shift) % p
        K_odd == KOf(c) % 2 = 1
    IN  IF K_odd /\ (((dist % 2) + (mi_0 % 2)) % 2 = M_X_parity)
        THEN mi_0 + p ELSE mi_0

(* The (mi, X) pairs one medium prime marks. *)
MediumMarks(c, p) ==
    LET shift == (1 + (KOf(c) % 2)) * p
    IN  {mx \in (0..(c.minc - 1)) \X coprime_X(c) :
            /\ mx[1] >= MediumMi0(c, p, mx[2])
            /\ (mx[1] - MediumMi0(c, p, mx[2])) % shift = 0
            /\ ~m_not_coprime(c, mx[1])}

(* composite after setting the bit of every (mi, X) of marks *)
ApplyMarks(c, vmi, wheel, comp, marks) ==
    [mii \in 1..Len(vmi) |->
        MarkAll(comp[mii], RowOf(c, wheel, vmi[mii]),
                {mx[2] : mx \in {q \in marks : q[1] = vmi[mii]}})]

(* One pass of the medium-prime loop. *)
MediumPrime ==
    /\ pc = "medium"
    /\ prime <= MEDIUM_THRESHOLD
    /\ composite' = ApplyMarks(config, valid_mi, i_reindex_wheel, composite,
                               MediumMarks(config, prime))
    /\ IF prime >= stats.next_print
       THEN /\ stats' = IncrementPrint(stats, prime, LAST_PRIME)
            /\ flag_reads' = flag_reads \cup {[phase |-> "medium", prime |-> prime]}
       ELSE UNCHANGED << stats, flag_reads >>
    /\ prime' = PrimeStream[it]
    /\ it' = it + 1
    /\ UNCHANGED << store, est, config, pc, exit_code, valid_mi, i_reindex_wheel,
                    thresholds, temp_stats, g_control_c, handler, signals,
                    callbacks, unknown_file, lines, range_row,
                    m1, reader, codec >>

(* signal(SIGINT, signal_callback_handler) *)
InstallHandler ==
    /\ pc = "medium"
    /\ prime > MEDIUM_THRESHOLD
    /\ handler' = TRUE
    /\ pc' = "large"
    /\ UNCHANGED << store, est, config, exit_code, valid_mi, i_reindex_wheel, composite,
                    thresholds, it, prime, stats, temp_stats, g_control_c,
                    signals, flag_reads, callbacks, unknown_file, lines,
                    range_row,
                    m1, reader, codec >>

(***************************************************************************)
(* Large primes.                                                           *)
(***************************************************************************)
(* The remainder taken of D instead of K. *)
BaseROfD(c, p) == c.d % p

(* base_r = mpz_fdiv_ui(K, prime) *)
BaseR(c, p) == KOf(c) % p

(* modulo_search_euclid_all_large is not part of the sources.  It is taken *)
(* from its description: it calls back, with first, for every mi of        *)
(* [0, M_inc) whose first = ((M_start + mi) r + SL) mod p is <= 2 SL.  It  *)
(* is not given D, so it cannot leave out the m that share a factor with   *)
(* D; the callback does that.  The result is the sequence of its calls.    *)
RECURSIVE AllLargeFrom(_, _, _, _, _, _)
AllLargeFrom(M_start, M_inc, sl, p, base_r, mi) ==
    IF mi >= M_inc THEN << >>
    ELSE LET first == ((M_start + mi) * base_r + sl) % p
         IN  (IF first <= 2 * sl THEN << << mi, first >> >> ELSE << >>)
                 \o AllLargeFrom(M_start, M_inc, sl, p, base_r, mi + 1)

modulo_search_euclid_all_large(M_start, M_inc, sl, p, base_r) ==
    AllLargeFrom(M_start, M_inc, sl, p, base_r, 0)

(* The callback with the test of 3 taken on dist alone. *)
LargeCallbackWritesPlainDist(c, mi, first) ==
    LET m == c.mstart + mi
        K_odd == KOf(c) % 2 = 1
        X == 2 * c.sieve_length - first
        dist == X - c.sieve_length
    IN  /\ ~(K_odd /\ m % 2 = 0)
        /\ ~m_not_coprime(c, mi)
        /\ ~(c.d % 2 = 0 /\ dist % 2 = 1)
        /\ ~(c.d % 3 = 0 /\ dist % 3 = 0)
        /\ ~(c.d % 5 = 0 /\ (dist + (KOf(c) % 5) * m) % 5 = 0)
        /\ ~(c.d % 7 = 0 /\ (dist + (KOf(c) % 7) * m) % 7 = 0)
        /\ coprime_composite(c, X)

(* The callback: TRUE when it reaches the write of composite. *)
LargeCallbackWrites(c, mi, first) ==
    LET m == c.mstart + mi
        K_odd == KOf(c) % 2 = 1
        X == 2 * c.sieve_length - first
        dist == X - c.sieve_length
    IN  /\ ~(K_odd /\ m % 2 = 0)
        /\ ~m_not_coprime(c, mi)
        /\ ~(c.d % 2 = 0 /\ dist % 2 = 1)
        /\ ~(c.d % 3 = 0 /\ (dist + (KOf(c) % 3) * m) % 3 = 0)
        /\ ~(c.d % 5 = 0 /\ (dist + (KOf(c) % 5) * m) % 5 = 0)
        /\ ~(c.d % 7 = 0 /\ (dist + (KOf(c) % 7) * m) % 7 = 0)
        /\ coprime_composite(c, X)

(* assert(mi < M_inc) and assert(first <= 2 * SL) of the callback; the     *)
(* second is reached only by the calls the two early returns let through.  *)
LargeCallbackAssertOK(c, cb) ==
    /\ cb[1] < c.minc
    /\ (~(KOf(c) % 2 = 1 /\ (c.mstart + cb[1]) % 2 = 0) /\ ~m_not_coprime(c, cb[1]))
           => cb[2] <= 2 * c.sieve_length

LargeMarks(c, cbs) ==
    {<< cb[1], 2 * c.sieve_length - cb[2] >> :
        cb \in {cbs[i] : i \in {j \in DOMAIN cbs :
                                   LargeCallbackWrites(c, cbs[j][1], cbs[j][2])}}}

(* max_prime after a cancel at prime *)
TrimmedMaxPrime(p) == p - (p % MILLION)

(* The cancel test taken out of the print block. *)
LargeCancelAnywhere(p, next_print, flag, last) == flag /\ p # last

(* if (prime >= stats.next_print) { ... if (g_control_c && (prime !=       *)
(* LAST_PRIME)) ... }: the cancel is acted on inside the print block.      *)
LargeCancel(p, next_print, flag, last) ==
    p >= next_print /\ flag /\ p # last

(* One pass of the large-prime loop: the bulk search with its callbacks,   *)
(* then the print-interval block with the cancel test.  The loop bound     *)
(* MAX_PRIME is config.max_prime, which changes only when the loop breaks. *)
LargePrime ==
    /\ pc = "large"
    /\ prime <= config.max_prime
    /\ LET cbs == modulo_search_euclid_all_large(config.mstart, config.minc,
                      SL, prime, BaseR(config, prime))
           boundary == prime >= stats.next_print
           cancel == LargeCancel(prime, stats.next_print, g_control_c, LAST_PRIME)
           asserts == \A i \in DOMAIN cbs : LargeCallbackAssertOK(config, cbs[i])
       IN  /\ callbacks' = [prime |-> prime, calls |-> cbs]
           /\ IF ~asserts
              THEN /\ pc' = "abort"
                   /\ UNCHANGED << composite, stats, flag_reads, config, prime,
                                   it, exit_code >>
              ELSE /\ composite' = ApplyMarks(config, valid_mi, i_reindex_wheel,
                                              composite, LargeMarks(config, cbs))
                   /\ IF boundary
                      THEN /\ stats' = IncrementPrint(stats, prime, LAST_PRIME)
                           /\ flag_reads' = flag_reads \cup
                                                {[phase |-> "large", prime |-> prime]}
                      ELSE UNCHANGED << stats, flag_reads >>
                   /\ IF cancel
                      THEN IF prime < MILLION
                           THEN /\ pc' = "exit"
                                /\ exit_code' = 2
                                /\ UNCHANGED << config, prime, it >>
                           ELSE /\ config' = [config EXCEPT
                                                !.max_prime = TrimmedMaxPrime(prime)]
                                /\ pc' = "after_loop"
                                /\ UNCHANGED << exit_code, prime, it >>
                      ELSE /\ prime' = PrimeStream[it]
                           /\ it' = it + 1
                           /\ UNCHANGED << config, pc, exit_code >>
    /\ UNCHANGED << store, est, valid_mi, i_reindex_wheel, thresholds, temp_stats,
                    g_control_c, handler, signals, unknown_file, lines,
                    range_row, m1, reader, codec >>

(* The loop condition prime <= MAX_PRIME fails. *)
LargeLoopEnd ==
    /\ pc = "large"
    /\ prime > config.max_prime
    /\ pc' = "after_loop"
    /\ UNCHANGED << store, est, config, exit_code, valid_mi, i_reindex_wheel, composite,
                    thresholds, it, prime, stats, temp_stats, g_control_c,
                    handler, signals, flag_reads, callbacks, unknown_file,
                    lines, range_row,
                    m1, reader, codec >>

Running == exit_code = -1 /\ pc \notin {"abort", "exit", "done", "killed"}

(* A SIGINT that reaches the process before signal(SIGINT, ...) has run    *)
(* meets the default disposition: the process is terminated by the signal. *)
sigint_default ==
    /\ ~handler
    /\ Running
    /\ signals' = signals + 1
    /\ pc' = "killed"
    /\ UNCHANGED << store, est, config, exit_code, valid_mi, i_reindex_wheel, composite,
                    thresholds, it, prime, stats, temp_stats, g_control_c,
                    handler, flag_reads, callbacks, unknown_file, lines,
                    range_row, m1, reader, codec >>

(* signal_callback_handler, run when a SIGINT reaches the process after    *)
(* the handler was installed.                                              *)
signal_callback_handler ==
    /\ handler
    /\ Running
    /\ signals' = signals + 1
    /\ IF g_control_c
       THEN /\ pc' = "exit"
            /\ exit_code' = 2
            /\ UNCHANGED g_control_c
       ELSE /\ g_control_c' = TRUE
            /\ UNCHANGED << pc, exit_code >>
    /\ UNCHANGED << store, est, config, valid_mi, i_reindex_wheel, composite, thresholds,
                    it, prime, stats, temp_stats, handler, flag_reads,
                    callbacks, unknown_file, lines, range_row,
                    m1, reader, codec >>

(***************************************************************************)
(* save_unknowns_method2.  The file is a sequence of character codes.      *)
(***************************************************************************)
CH_NL == 10
CH_SP == 32
CH_PLUS == 43
CH_MINUS == 45
CH_0 == 48
CH_COLON == 58
CH_BAR == 124

(* operator<< of an unsigned integer: its decimal digits *)
RECURSIVE Dec(_)
Dec(n) ==
    IF n < 10 THEN << CH_0 + n >>
    ELSE Dec(n \div 10) \o << CH_0 + (n % 10) >>

(* The counting loop: unknown_l counts the clear bits of X <= SL,          *)
(* unknown_u those of X > SL.                                              *)
CountUnknownL(c, comp, row) ==
    Cardinality({i \in 0..c.sieve_length : ~comp[row[i]]})

CountUnknownU(c, comp, row) ==
    Cardinality({i \in (c.sieve_length + 1)..(2 * c.sieve_length) : ~comp[row[i]]})

(* The i of side d (0: prev, 1: next) the writing loop finds unknown,      *)
(* ascending: a = SL + (2 d - 1) i.                                        *)
UnknownSide(c, comp, row, d) ==
    SortedSeq({i \in 1..c.sieve_length :
                  ~comp[row[c.sieve_length + (2 * d - 1) * i]]})

(* " " prefix i, for every unknown i *)
RECURSIVE SparseSide(_, _)
SparseSide(side, prefix) ==
    IF side = << >> THEN << >>
    ELSE << CH_SP, prefix >> \o Dec(Head(side)) \o SparseSide(Tail(side), prefix)

(* upper = 48 + delta / 128, lower = 48 + delta % 128, delta = i - last *)
RECURSIVE RleSide(_, _)
RleSide(side, last) ==
    IF side = << >> THEN << >>
    ELSE LET delta == Head(side) - last
         IN  << RLE_BASE + (delta \div RLE_RADIX), RLE_BASE + (delta % RLE_RADIX) >>
                 \o RleSide(Tail(side), Head(side))

(* assert(0 <= delta && delta < 128 * 128), for every delta of a side *)
RECURSIVE RleAssertOK(_, _)
RleAssertOK(side, last) ==
    IF side = << >> THEN TRUE
    ELSE /\ Head(side) - last >= 0
         /\ Head(side) - last < RLE_RADIX * RLE_RADIX
         /\ RleAssertOK(Tail(side), Head(side))

WriteSide(side, d, rle) ==
    IF rle THEN << CH_SP >> \o RleSide(side, 0)
    ELSE SparseSide(side, IF d = 0 THEN CH_MINUS ELSE CH_PLUS)

(* One line of the unknown file. *)
SaveLine(c, mi, comp, row, rle) ==
    Dec(mi) \o << CH_SP, CH_COLON, CH_SP, CH_MINUS >>
        \o Dec(CountUnknownL(c, comp, row))
        \o << CH_SP, CH_PLUS >> \o Dec(CountUnknownU(c, comp, row))
        \o << CH_SP, CH_BAR >>
        \o WriteSide(UnknownSide(c, comp, row, 0), 0, rle)
        \o << CH_SP, CH_BAR >>
        \o WriteSide(UnknownSide(c, comp, row, 1), 1, rle)
        \o << CH_NL >>

(* assert(found == unknown_l), assert(found == unknown_u), the RLE range *)
SaveLineAssertOK(c, comp, row, rle) ==
    /\ Len(UnknownSide(c, comp, row, 0)) = CountUnknownL(c, comp, row)
    /\ Len(UnknownSide(c, comp, row, 1)) = CountUnknownU(c, comp, row)
    /\ rle => /\ RleAssertOK(UnknownSide(c, comp, row, 0), 0)
              /\ RleAssertOK(UnknownSide(c, comp, row, 1), 0)

RECURSIVE Concat(_)
Concat(ss) == IF ss = << >> THEN << >> ELSE Head(ss) \o Concat(Tail(ss))

(* The lines written from the last valid mi down to the first. *)
SaveFileDescending(c, vmi, wheel, comp) ==
    Concat([k \in 1..Len(vmi) |->
               LET mii == Len(vmi) + 1 - k
               IN  SaveLine(c, vmi[mii], comp[mii], RowOf(c, wheel, vmi[mii]), c.rle)])

(* The loop over valid_mi: the lines in the order of valid_mi. *)
SaveFile(c, vmi, wheel, comp) ==
    Concat([mii \in 1..Len(vmi) |->
               SaveLine(c, vmi[mii], comp[mii], RowOf(c, wheel, vmi[mii]), c.rle)])

SaveLines(c, vmi, wheel, comp) ==
    [mii \in 1..Len(vmi) |->
        [mi |-> vmi[mii],
         low |-> UnknownSide(c, comp[mii], RowOf(c, wheel, vmi[mii]), 0),
         high |-> UnknownSide(c, comp[mii], RowOf(c, wheel, vmi[mii]), 1)]]

(* if (config.save_unknowns) save_unknowns_method2(...) *)
SaveUnknowns ==
    /\ pc = "after_loop"
    /\ IF \A mii \in 1..Len(valid_mi) :
            SaveLineAssertOK(config, composite[mii],
                             RowOf(config, i_reindex_wheel, valid_mi[mii]), config.rle)
       THEN /\ unknown_file' = SaveFile(config, valid_mi, i_reindex_wheel, composite)
            /\ lines' = SaveLines(config, valid_mi, i_reindex_wheel, composite)
            /\ pc' = "saved"
       ELSE /\ pc' = "abort"
            /\ UNCHANGED << unknown_file, lines >>
    /\ UNCHANGED << store, est, config, exit_code, valid_mi, i_reindex_wheel, composite,
                    thresholds, it, prime, stats, temp_stats, g_control_c,
                    handler, signals, flag_reads, callbacks, range_row,
                    m1, reader, codec >>

(* insert_range_db(config, valid_mi.size(), secs) *)
InsertRangeDb ==
    /\ pc = "saved"
    /\ range_row' = [P |-> config.p, D |-> config.d, m_start |-> config.mstart,
                     m_inc |-> config.minc, sieve_length |-> config.sieve_length,
                     max_prime |-> config.max_prime, num_m |-> Len(valid_mi)]
    /\ pc' = "inserted"
    /\ UNCHANGED << store, est, config, exit_code, valid_mi, i_reindex_wheel, composite,
                    thresholds, it, prime, stats, temp_stats, g_control_c,
                    handler, signals, flag_reads, callbacks, unknown_file,
                    lines,
                    m1, reader, codec >>

(* prime_gap_parallel returns and main ends. *)
MainReturn ==
    /\ pc = "inserted"
    /\ pc' = "done"
    /\ exit_code' = 0
    /\ UNCHANGED << store, est, config, valid_mi, i_reindex_wheel, composite, thresholds,
                    it, prime, stats, temp_stats, g_control_c, handler,
                    signals, flag_reads, callbacks, unknown_file, lines,
                    range_row,
                    m1, reader, codec >>

(***************************************************************************)
(* Method 1: prime_gap_search.                                             *)
(***************************************************************************)
SMALL_PRIME_LIMIT_METHOD1 == 400000

(* modulo_search_euclid_gcd(M, D, max_m, SL, prime, base_r): the least mi  *)
(* in [0, max_m) with gcd(M + mi, D) = 1 and                               *)
(* (base_r (M + mi) + SL) mod prime <= 2 SL, and max_m when there is none. *)
RECURSIVE SearchFrom(_, _, _, _, _, _, _)
SearchFrom(M, D, max_m, sl, p, base_r, mi) ==
    IF mi >= max_m THEN max_m
    ELSE IF GCD(M + mi, D) = 1 /\ (base_r * (M + mi) + sl) % p <= 2 * sl
         THEN mi
         ELSE SearchFrom(M, D, max_m, sl, p, base_r, mi + 1)

modulo_search_euclid_gcd(M, D, max_m, sl, p, base_r) ==
    SearchFrom(M, D, max_m, sl, p, base_r, 0)

(* The primes the first loop keeps as (prime, base_r) pairs. *)
prime_and_remainder(c) ==
    LET ps == SelectSeq(PrimeStream,
                  LAMBDA q : q <= c.max_prime /\ q <= SMALL_PRIME_LIMIT_METHOD1)
    IN  [i \in 1..Len(ps) |-> << ps[i], BaseR(c, ps[i]) >>]

M1LargePrimes(c) ==
    SelectSeq(PrimeStream,
              LAMBDA q : q <= c.max_prime /\ q > SMALL_PRIME_LIMIT_METHOD1)

(* assert(SMALL_PRIME_LIMIT_METHOD1 > 2 * SIEVE_LENGTH) and                *)
(* assert(prime_and_remainder.size() == small_primes.size())               *)
M1SetupAssertOK(c) ==
    /\ SMALL_PRIME_LIMIT_METHOD1 > 2 * c.sieve_length
    /\ Len(prime_and_remainder(c))
           = Len(SelectSeq(PrimeStream, LAMBDA q : q <= SMALL_PRIME_LIMIT_METHOD1))

(* The first search taken over every m, valid or not. *)
M1FirstMiAnyM(c, pr) ==
    modulo_search_euclid_gcd(c.mstart, 1, c.minc, c.sieve_length, pr[1], pr[2])

(* The first mi a large prime is queued at. *)
M1FirstMi(c, pr) ==
    modulo_search_euclid_gcd(c.mstart, c.d, c.minc, c.sieve_length, pr[1], pr[2])

(* The re-queueing search started from M_start instead of M_start + start. *)
M1NextMiUnshifted(c, mi, pr) ==
    (mi + 1) + modulo_search_euclid_gcd(c.mstart, c.d, c.minc - (mi + 1),
                                        c.sieve_length, pr[1], pr[2])

(* The next mi a prime handled at mi is queued at. *)
M1NextMi(c, mi, pr) ==
    (mi + 1) + modulo_search_euclid_gcd(c.mstart + (mi + 1), c.d, c.minc - (mi + 1),
                                        c.sieve_length, pr[1], pr[2])

(* first / mult = (base_r * (M_start + mi) + SL) % prime *)
M1Mult(c, mi, pr) == (pr[2] * (c.mstart + mi) + c.sieve_length) % pr[1]

(* The loop over the primes above SMALL_PRIME_LIMIT_METHOD1.  searches     *)
(* keeps, for every call of the search, the mi it started from and the mi  *)
(* it gave.                                                                *)
RECURSIVE M1BuildQueue(_, _, _)
M1BuildQueue(c, ps, st) ==
    IF ps = << >> THEN st
    ELSE LET pr == << Head(ps), BaseR(c, Head(ps)) >>
             mi == M1FirstMi(c, pr)
             searched == st.searches \cup {[pr |-> pr, start |-> 0, mi |-> mi]}
         IN  IF mi = c.minc
             THEN M1BuildQueue(c, Tail(ps), [st EXCEPT !.searches = searched])
             ELSE M1BuildQueue(c, Tail(ps),
                      [queue |-> [st.queue EXCEPT ![mi] = Append(@, pr)],
                       ok |-> st.ok /\ mi < c.minc
                                 /\ M1Mult(c, mi, pr) <= 2 * c.sieve_length,
                       searches |-> searched,
                       s_large_primes_rem |-> st.s_large_primes_rem + 1])

M1Setup ==
    /\ pc = "main"
    /\ config.method1
    /\ LET st == M1BuildQueue(config, M1LargePrimes(config),
                     [queue |-> [mi \in 0..(config.minc - 1) |-> << >>],
                      ok |-> TRUE, searches |-> {}, s_large_primes_rem |-> 0])
       IN  IF M1SetupAssertOK(config) /\ st.ok
           THEN /\ m1' = [mi |-> 0, queue |-> st.queue, searches |-> st.searches,
                          s_tests |-> 0,
                          s_large_primes_rem |-> st.s_large_primes_rem]
                /\ composite' = << [x \in 0..SL |-> FALSE], [x \in 0..SL |-> FALSE] >>
                /\ pc' = "m1_loop"
           ELSE /\ pc' = "abort"
                /\ UNCHANGED << m1, composite >>
    /\ UNCHANGED << store, est, config, exit_code, valid_mi, i_reindex_wheel, thresholds,
                    it, prime, stats, temp_stats, g_control_c, handler,
                    signals, flag_reads, callbacks, unknown_file, lines,
                    range_row, reader, codec >>

(* The x the small primes mark on side d (0: composite[0], 1: composite[1]) *)
M1SmallMarks(c, m, d) ==
    LET par == prime_and_remainder(c)
    IN  {x \in 0..c.sieve_length :
            \E i \in 1..Len(par) :
                LET modulo == (par[i][2] * m) % par[i][1]
                    from == IF d = 0 THEN modulo ELSE par[i][1] - modulo
                IN  x >= from /\ (x - from) % par[i][1] = 0}

(* The loop over large_prime_queue[mi]. *)
RECURSIVE M1ProcessQueue(_, _, _, _)
M1ProcessQueue(c, mi, prs, st) ==
    IF prs = << >> THEN st
    ELSE LET pr == Head(prs)
             modulo == (pr[2] * (c.mstart + mi)) % pr[1]
             first_positive == pr[1] - modulo
             low == modulo <= c.sieve_length
             next_mi == M1NextMi(c, mi, pr)
             marked == [st EXCEPT
                          !.comp0 = IF low THEN @ \cup {modulo} ELSE @,
                          !.comp1 = IF low THEN @ ELSE @ \cup {first_positive},
                          !.ok = @ /\ (low \/ first_positive <= c.sieve_length),
                          !.s_large_primes_rem = @ - 1]
             searched == marked.searches \cup
                             {[pr |-> pr, start |-> mi + 1, mi |-> next_mi]}
         IN  IF next_mi = c.minc
             THEN M1ProcessQueue(c, mi, Tail(prs),
                                 [marked EXCEPT !.searches = searched])
             ELSE M1ProcessQueue(c, mi, Tail(prs),
                      [marked EXCEPT
                          !.queue[next_mi] = Append(@, pr),
                          !.ok = @ /\ M1Mult(c, next_mi, pr) < 2 * c.sieve_length + 1,
                          !.searches = searched,
                          !.s_large_primes_rem = @ + 1])

(* std::fill_n(..., 0); composite[0][0] = composite[1][0] = 1; then the marks *)
M1Composite(c, marks) ==
    [x \in 0..c.sieve_length |-> x = 0 \/ x \in marks]

M1UnknownSide(c, comp, d) ==
    SortedSeq({i \in 1..c.sieve_length : ~comp[d + 1][i]})

M1Count(comp, d) ==
    Cardinality({x \in DOMAIN comp[d + 1] : ~comp[d + 1][x]})

save_unknowns_method1(c, mi, comp) ==
    Dec(mi) \o << CH_SP, CH_COLON, CH_SP, CH_MINUS >> \o Dec(M1Count(comp, 0))
        \o << CH_SP, CH_PLUS >> \o Dec(M1Count(comp, 1)) \o << CH_SP, CH_BAR >>
        \o SparseSide(M1UnknownSide(c, comp, 0), CH_MINUS)
        \o << CH_SP, CH_BAR >>
        \o SparseSide(M1UnknownSide(c, comp, 1), CH_PLUS)
        \o << CH_NL >>

(* for mi: gcd(m, D) > 1 -> assert the queue is empty, continue *)
M1SkipM ==
    /\ pc = "m1_loop"
    /\ m1.mi < config.minc
    /\ GCD(config.mstart + m1.mi, config.d) > 1
    /\ IF m1.queue[m1.mi] = << >>
       THEN /\ m1' = [m1 EXCEPT !.mi = @ + 1]
            /\ pc' = pc
       ELSE /\ pc' = "abort"
            /\ m1' = m1
    /\ UNCHANGED << store, est, config, exit_code, valid_mi, i_reindex_wheel, composite,
                    thresholds, it, prime, stats, temp_stats, g_control_c,
                    handler, signals, flag_reads, callbacks, unknown_file,
                    lines, range_row, reader, codec >>

(* One iteration of the main sieve loop for a valid m. *)
M1SieveM ==
    /\ pc = "m1_loop"
    /\ m1.mi < config.minc
    /\ GCD(config.mstart + m1.mi, config.d) = 1
    /\ LET mi == m1.mi
           m == config.mstart + mi
           st == M1ProcessQueue(config, mi, m1.queue[mi],
                     [comp0 |-> M1SmallMarks(config, m, 0),
                      comp1 |-> M1SmallMarks(config, m, 1),
                      queue |-> m1.queue, ok |-> TRUE, searches |-> m1.searches,
                      s_large_primes_rem |-> m1.s_large_primes_rem])
           comp == << M1Composite(config, st.comp0), M1Composite(config, st.comp1) >>
       IN  IF st.ok
           THEN /\ composite' = comp
                /\ m1' = [mi |-> mi + 1,
                          queue |-> [st.queue EXCEPT ![mi] = << >>],
                          searches |-> st.searches,
                          s_tests |-> m1.s_tests + 1,
                          s_large_primes_rem |-> st.s_large_primes_rem]
                /\ unknown_file' = unknown_file \o save_unknowns_method1(config, mi, comp)
                /\ lines' = Append(lines,
                                [mi |-> mi,
                                 low |-> M1UnknownSide(config, comp, 0),
                                 high |-> M1UnknownSide(config, comp, 1)])
                /\ pc' = pc
           ELSE /\ pc' = "abort"
                /\ UNCHANGED << composite, m1, unknown_file, lines >>
    /\ UNCHANGED << store, est, config, exit_code, valid_mi, i_reindex_wheel, thresholds,
                    it, prime, stats, temp_stats, g_control_c, handler,
                    signals, flag_reads, callbacks, range_row, reader, codec >>

(* insert_range_db, the final asserts on the queues, return to main. *)
M1Finish ==
    /\ pc = "m1_loop"
    /\ m1.mi = config.minc
    /\ range_row' = [P |-> config.p, D |-> config.d, m_start |-> config.mstart,
                     m_inc |-> config.minc, sieve_length |-> config.sieve_length,
                     max_prime |-> config.max_prime, num_m |-> m1.s_tests]
    /\ IF \A mi \in 0..(config.minc - 1) : m1.queue[mi] = << >>
       THEN pc' = "done" /\ exit_code' = 0
       ELSE pc' = "abort" /\ UNCHANGED exit_code
    /\ UNCHANGED << store, est, config, valid_mi, i_reindex_wheel, composite, thresholds,
                    it, prime, stats, temp_stats, g_control_c, handler,
                    signals, flag_reads, callbacks, unknown_file, lines,
                    m1, reader, codec >>

(***************************************************************************)
(* The estimator's reader: read_unknown_line and the loop that calls it.   *)
(* The stream is the character sequence and a position in it.              *)
(***************************************************************************)
CH_EOF == 255

IsSpace(ch) == ch \in {9, 10, 11, 12, 13, 32}

IsDigit(ch) == ch >= CH_0 /\ ch <= CH_0 + 9

RECURSIVE SkipWs(_, _)
SkipWs(s, pos) ==
    IF pos <= Len(s) /\ IsSpace(s[pos]) THEN SkipWs(s, pos + 1) ELSE pos

RECURSIVE ReadDigits(_, _, _)
ReadDigits(s, pos, acc) ==
    IF pos <= Len(s) /\ IsDigit(s[pos])
    THEN ReadDigits(s, pos + 1, acc * 10 + (s[pos] - CH_0))
    ELSE [val |-> acc, pos |-> pos]

(* operator>>(int&): skip white space, an optional sign, the digits *)
ReadInt(s, pos) ==
    LET p1 == SkipWs(s, pos)
        signed == p1 <= Len(s) /\ s[p1] \in {CH_MINUS, CH_PLUS}
        p2 == IF signed THEN p1 + 1 ELSE p1
        r == ReadDigits(s, p2, 0)
    IN  [ok |-> r.pos > p2,
         val |-> IF signed /\ s[p1] = CH_MINUS THEN 0 - r.val ELSE r.val,
         pos |-> r.pos]

RECURSIVE TokenEnd(_, _)
TokenEnd(s, pos) ==
    IF pos <= Len(s) /\ ~IsSpace(s[pos]) THEN TokenEnd(s, pos + 1) ELSE pos

(* operator>>(std::string&): skip white space, read up to white space *)
ReadStr(s, pos) ==
    LET p1 == SkipWs(s, pos)
    IN  [str |-> SubSeq(s, p1, TokenEnd(s, p1) - 1), pos |-> TokenEnd(s, p1)]

(* get(): the next character, whatever it is *)
Get(s, pos) == IF pos <= Len(s) THEN s[pos] ELSE CH_EOF

(* One of the two loops over the offsets of a side.  st = [pos, c, out, ok] *)
RECURSIVE ReadSide(_, _, _, _, _)
ReadSide(s, st, n, rle, sign) ==
    IF n <= 0 THEN st
    ELSE IF rle
         THEN LET a == Get(s, st.pos)
                  b == Get(s, st.pos + 1)
                  c == st.c + (a - RLE_BASE) * RLE_RADIX + (b - RLE_BASE)
              IN  ReadSide(s, [pos |-> st.pos + 2, c |-> c,
                               out |-> Append(st.out, c), ok |-> st.ok],
                           n - 1, rle, sign)
         ELSE LET r == ReadInt(s, st.pos)
                  c == sign * r.val
              IN  ReadSide(s, [pos |-> r.pos, c |-> c,
                               out |-> Append(st.out, c), ok |-> st.ok /\ r.ok],
                           n - 1, rle, sign)

(* read_unknown_line: ok is FALSE when one of its asserts fails or the     *)
(* stream fails to yield a number.                                         *)
read_unknown_line(rle, mi, s, pos) ==
    LET r_m == ReadInt(s, pos)
        d1 == ReadStr(s, r_m.pos)
        r_l == ReadInt(s, d1.pos)
        unknown_l == 0 - r_l.val
        r_u == ReadInt(s, r_l.pos)
        unknown_u == r_u.val
        d2 == ReadStr(s, r_u.pos)
        low == ReadSide(s, [pos |-> d2.pos + 1, c |-> 0, out |-> << >>, ok |-> TRUE],
                        unknown_l, rle, 0 - 1)
        d3 == ReadStr(s, low.pos)
        high == ReadSide(s, [pos |-> d3.pos + 1, c |-> 0, out |-> << >>, ok |-> TRUE],
                         unknown_u, rle, 1)
    IN  [ok |-> /\ r_m.ok /\ r_m.val >= 0 /\ r_m.val = mi
                /\ d1.str = << CH_COLON >>
                /\ r_l.ok /\ r_u.ok
                /\ d2.str = << CH_BAR >>
                /\ Get(s, d2.pos) = CH_SP
                /\ low.ok
                /\ d3.str = << CH_BAR >>
                /\ Get(s, d3.pos) = CH_SP
                /\ high.ok,
         mtest |-> r_m.val,
         unknown_l |-> unknown_l,
         unknown_u |-> unknown_u,
         low |-> low.out,
         high |-> high.out,
         pos |-> high.pos]

(* prime_gap_stats: valid_m *)
valid_m(c) == SortedSeq({mi \in 0..(c.minc - 1) : GCD(c.mstart + mi, c.d) = 1})

(* The estimator is run on the range a finished sieve left behind.  With   *)
(* minc = 1 and mstart # 1 it takes the prob_record_vs_plimit path, which  *)
(* reads no unknown lines.                                                 *)
EstimatorStart ==
    /\ pc = "done"
    /\ reader.pc = "idle"
    /\ IF config.minc = 1 /\ config.mstart # 1
       THEN reader' = [pc |-> "plimit"]
       ELSE reader' = [pc |-> "reading", k |-> 1, pos |-> 1, out |-> << >>]
    /\ UNCHANGED << store, est, config, pc, exit_code, valid_mi, i_reindex_wheel, composite,
                    thresholds, it, prime, stats, temp_stats, g_control_c,
                    handler, signals, flag_reads, callbacks, unknown_file,
                    lines, range_row, m1, codec >>

(* for (uint32_t mi : valid_m) read_unknown_line(config, mi, ...) *)
EstimatorReadLine ==
    /\ reader.pc = "reading"
    /\ reader.k <= Len(valid_m(config))
    /\ LET r == read_unknown_line(config.rle, valid_m(config)[reader.k],
                                  unknown_file, reader.pos)
       IN  IF r.ok
           THEN reader' = [pc |-> "reading", k |-> reader.k + 1, pos |-> r.pos,
                           out |-> Append(reader.out,
                                      [mi |-> r.mtest, low |-> r.low, high |-> r.high])]
           ELSE reader' = [reader EXCEPT !.pc = "abort"]
    /\ UNCHANGED << store, est, config, pc, exit_code, valid_mi, i_reindex_wheel, composite,
                    thresholds, it, prime, stats, temp_stats, g_control_c,
                    handler, signals, flag_reads, callbacks, unknown_file,
                    lines, range_row, m1, codec >>

EstimatorDone ==
    /\ reader.pc = "reading"
    /\ reader.k > Len(valid_m(config))
    /\ reader' = [reader EXCEPT !.pc = "done"]
    /\ UNCHANGED << store, est, config, pc, exit_code, valid_mi, i_reindex_wheel, composite,
                    thresholds, it, prime, stats, temp_stats, g_control_c,
                    handler, signals, flag_reads, callbacks, unknown_file,
                    lines, range_row, m1, codec >>

(***************************************************************************)
(* The method-2 sieve as it is built: exit(1) follows Phase A.             *)
(***************************************************************************)
InitBuilt ==
    /\ store = << >>
    /\ est = << >>
    /\ codec = << >>
    /\ m1 = << >>
    /\ config \in {c \in Configs : ~c.method1}
    /\ InitCommon

NextBuilt ==
    Setup \/ SmallPrimesBatch \/ ExitAfterSmallPrimes \/ sigint_default

SpecBuilt == InitBuilt /\ [][NextBuilt]_vars

(***************************************************************************)
(* The sieve engine followed by the estimator's reader.  The exit(1) that  *)
(* follows the call of method2_small_primes is left out here, so that the  *)
(* phases follow each other; SpecBuilt has it.                             *)
(***************************************************************************)
Init ==
    /\ store = << >>
    /\ est = << >>
    /\ config \in Configs
    /\ codec = << >>
    /\ m1 = << >>
    /\ InitCommon

Next ==
    \/ Setup \/ SmallPrimesBatch \/ EnterMedium \/ MediumPrime
    \/ InstallHandler \/ LargePrime \/ LargeLoopEnd
    \/ sigint_default \/ signal_callback_handler
    \/ SaveUnknowns \/ InsertRangeDb \/ MainReturn
    \/ M1Setup \/ M1SkipM \/ M1SieveM \/ M1Finish
    \/ EstimatorStart \/ EstimatorReadLine \/ EstimatorDone

Spec == Init /\ [][Next]_vars

(***************************************************************************)
(* The two encodings of a line, side by side: one bitmap is written by     *)
(* save_unknowns_method2 in both forms and each form is read back by       *)
(* read_unknown_line with the matching flag.  The sieve length is large    *)
(* enough for RLE deltas of 128 and more.                                  *)
(***************************************************************************)
CodecSL == 130
CodecMaxMi == 12

CodecOffsets == {1, 2, CodecSL - 1, CodecSL}

CodecConfig ==
    [p |-> 2, d |-> 1, mstart |-> 1, minc |-> CodecMaxMi + 1,
     sieve_length |-> CodecSL, max_prime |-> 100, rle |-> FALSE,
     method1 |-> FALSE]

(* The bitmap with the given unknown distances: the centre on the sentinel *)
(* index 0, X on index X + 1.                                              *)
CodecRow == [X \in 0..(2 * CodecSL) |-> IF X = CodecSL THEN 0 ELSE X + 1]

CodecBitmap(low, high) ==
    [idx \in 0..(2 * CodecSL + 1) |->
        \/ idx = 0
        \/ /\ idx - 1 < CodecSL
           /\ (CodecSL - (idx - 1)) \notin low
        \/ /\ idx - 1 > CodecSL
           /\ ((idx - 1) - CodecSL) \notin high]

InitCodec ==
    /\ store = << >>
    /\ est = << >>
    /\ config = CodecConfig
    /\ m1 = << >>
    /\ InitCommon
    /\ \E mi \in {0, CodecMaxMi} :
       \E low \in SUBSET CodecOffsets :
       \E high \in SUBSET CodecOffsets :
           codec = [mi |-> mi, low |-> low, high |-> high,
                    text |-> [r \in BOOLEAN |-> << >>],
                    dec |-> [r \in BOOLEAN |-> << >>]]

CodecWrite(rle) ==
    /\ codec.text[rle] = << >>
    /\ SaveLineAssertOK(config, CodecBitmap(codec.low, codec.high), CodecRow, rle)
    /\ codec' = [codec EXCEPT !.text[rle] =
                    SaveLine(config, codec.mi, CodecBitmap(codec.low, codec.high),
                             CodecRow, rle)]
    /\ UNCHANGED << store, est, config, pc, exit_code, valid_mi, i_reindex_wheel, composite,
                    thresholds, it, prime, stats, temp_stats, g_control_c,
                    handler, signals, flag_reads, callbacks, unknown_file,
                    lines, range_row, m1, reader >>

CodecRead(rle) ==
    /\ codec.text[rle] # << >>
    /\ codec.dec[rle] = << >>
    /\ codec' = [codec EXCEPT !.dec[rle] =
                    read_unknown_line(rle, codec.mi, codec.text[rle], 1)]
    /\ UNCHANGED << store, est, config, pc, exit_code, valid_mi, i_reindex_wheel, composite,
                    thresholds, it, prime, stats, temp_stats, g_control_c,
                    handler, signals, flag_reads, callbacks, unknown_file,
                    lines, range_row, m1, reader >>

CodecWriteSparse == CodecWrite(FALSE)

CodecWriteRle == CodecWrite(TRUE)

CodecReadSparse == CodecRead(FALSE)

CodecReadRle == CodecRead(TRUE)

NextCodec ==
    \/ CodecWriteSparse \/ CodecWriteRle \/ CodecReadSparse \/ CodecReadRle

SpecCodec == InitCodec /\ [][NextCodec]_vars

(***************************************************************************)
(* The searches of method 1 for one prime, on their own: the first         *)
(* placement and then the re-queueing from each mi the prime is handled    *)
(* at.  The remainder r = K mod prime of a K of real size is any value     *)
(* below the prime, so it is drawn here rather than computed from the      *)
(* model's small K; the prime is above 2 SL, as the caller guarantees.     *)
(***************************************************************************)
SearchMInc == 6

SearchPrimes == {q \in {PrimeStream[i] : i \in 1..NumPrimes} :
                    q > 2 * (SL_MIN_FACTOR * SetMax(Ps) + SLExtra) /\ q < 50}

SearchConfigs ==
    {c \in [p : Ps, d : 1..6, mstart : MStarts, minc : {SearchMInc},
            sieve_length : 12..(18 + SLExtra), max_prime : {SetMin(MaxPrimes \ {100})},
            rle : {FALSE}, method1 : {TRUE}] :
        /\ c.d \in Divisors(Primorial(c.p))
        /\ c.sieve_length \in (SL_MIN_FACTOR * c.p)..(SL_MIN_FACTOR * c.p + SLExtra)
        /\ SieveLengthOK(c)}

InitSearch ==
    /\ store = << >>
    /\ est = << >>
    /\ config \in SearchConfigs
    /\ InitCommon
    /\ codec = << >>
    /\ \E q \in SearchPrimes : \E r \in 0..(q - 1) :
           m1 = [pr |-> << q, r >>, at |-> 0 - 1, visits |-> << >>, ok |-> TRUE]

(* uint64_t mi = modulo_search_euclid_gcd(M_start, D, M_inc, SL, prime,    *)
(* base_r) with the asserts that follow it                                 *)
SearchFirst ==
    /\ m1.at = 0 - 1
    /\ LET mi == M1FirstMi(config, m1.pr)
       IN  m1' = [m1 EXCEPT !.at = mi, !.visits = Append(@, mi),
                            !.ok = @ /\ (mi = config.minc \/
                                         (mi < config.minc /\
                                          M1Mult(config, mi, m1.pr) <= 2 * SL))]
    /\ UNCHANGED << store, est, config, pc, exit_code, valid_mi, i_reindex_wheel, composite,
                    thresholds, it, prime, stats, temp_stats, g_control_c,
                    handler, signals, flag_reads, callbacks, unknown_file,
                    lines, range_row, reader, codec >>

(* next_mi = start + modulo_search_euclid_gcd(M_start + start, D,          *)
(* M_inc - start, SL, prime, remainder) with the assert that follows it    *)
SearchNext ==
    /\ m1.at >= 0
    /\ m1.at < config.minc
    /\ LET next_mi == M1NextMi(config, m1.at, m1.pr)
       IN  m1' = [m1 EXCEPT !.at = next_mi, !.visits = Append(@, next_mi),
                            !.ok = @ /\ (next_mi = config.minc \/
                                         M1Mult(config, next_mi, m1.pr) < 2 * SL + 1)]
    /\ UNCHANGED << store, est, config, pc, exit_code, valid_mi, i_reindex_wheel, composite,
                    thresholds, it, prime, stats, temp_stats, g_control_c,
                    handler, signals, flag_reads, callbacks, unknown_file,
                    lines, range_row, reader, codec >>

NextSearch == SearchFirst \/ SearchNext

SpecSearch == InitSearch /\ [][NextSearch]_vars

(***************************************************************************)
(* The estimator's main and store_stats against the result store.  The     *)
(* store holds the rows of one range (the rid of config): the range row,   *)
(* the gaps of its range_stats rows and the m of its m_stats rows, and,    *)
(* while a transaction is open, the uncommitted copy tx.  A process that   *)
(* exits with a transaction open leaves the committed rows as they were.   *)
(* A statement may fail (busy store, full disk, a table without the        *)
(* column it names): every call that tests a return code draws it.         *)
(***************************************************************************)
MaxStatGaps == 2

sieve_vars == << config, pc, exit_code, valid_mi, i_reindex_wheel, composite,
                 thresholds, it, prime, stats, temp_stats, g_control_c,
                 handler, signals, flag_reads, callbacks, unknown_file,
                 lines, range_row, m1, reader, codec >>

StatGaps == 1..MaxStatGaps

(* The test taken with a threshold of 1 instead of 0. *)
ProcessedAboveOne(s) ==
    s.range # << >> /\ s.range.time_stats > 1

(* SELECT count( * ) FROM range WHERE rid = ... and time_stats > 0 *)
is_range_already_processed(s) ==
    s.range # << >> /\ s.range.time_stats > 0

(* M_vals: the m of the lines run_gap_file read *)
M_valsOf(c) ==
    LET vm == valid_m(c) IN [i \in 1..Len(vm) |-> c.mstart + vm[i]]

(* std::is_sorted(first, last, std::greater<>()) *)
IsSortedDescending(s) == \A i \in 1..(Len(s) - 1) : s[i] >= s[i + 1]

SeqRange(s) == {s[i] : i \in 1..Len(s)}

(* The rows a loop of store_stats inserts when it runs over todo and its   *)
(* bind/step fails at position fail (0: no failure): INSERT OR IGNORE of   *)
(* the rows before the break.                                              *)
InsertedBefore(todo, fail) ==
    {todo[i] : i \in {j \in 1..Len(todo) : fail = 0 \/ j < fail}}

StatsConfigs ==
    {c \in Configs : c.max_prime = 100 /\ ~c.method1 /\ ~c.rle
                     /\ c.sieve_length = SL_MIN_FACTOR * c.p}

StoreRanges ==
    {<< >>} \cup [time_sieve : {1}, time_stats : {0, 1}]

InitStats ==
    /\ config \in StatsConfigs
    /\ codec = << >>
    /\ m1 = << >>
    /\ InitCommon
    /\ \E r \in StoreRanges :
           store = [range |-> r,
                    range_stats |-> IF is_range_already_processed([range |-> r])
                                    THEN StatGaps ELSE {},
                    m_stats |-> IF is_range_already_processed([range |-> r])
                                THEN SeqRange(M_valsOf(config)) ELSE {},
                    tx |-> << >>]
    /\ \E su \in BOOLEAN :
           est = [pc |-> "start", exit_code |-> 0 - 1, save_unknowns |-> su,
                  tables |-> FALSE, probs_record |-> << >>, gaps |-> {},
                  secs |-> 0, refused |-> FALSE, entered |-> FALSE,
                  failed |-> FALSE, committed |-> FALSE, store0 |-> store]

EstExit(code) == [est EXCEPT !.pc = "exit", !.exit_code = code]

(* main of the estimator up to the call of prime_gap_stats *)
EstMain ==
    /\ est.pc = "start"
    /\ IF est.save_unknowns
       THEN \E rc_ok \in BOOLEAN :
              IF ~rc_ok
              THEN est' = EstExit(1)
              ELSE IF is_range_already_processed(store)
              THEN est' = [EstExit(1) EXCEPT !.refused = TRUE]
              ELSE est' = [est EXCEPT !.pc =
                              IF config.minc = 1 /\ config.mstart # 1
                              THEN "plimit" ELSE "stats"]
       ELSE est' = [est EXCEPT !.pc =
                       IF config.minc = 1 /\ config.mstart # 1
                       THEN "plimit" ELSE "stats"]
    /\ UNCHANGED << store, sieve_vars >>

(***************************************************************************)
(* prob_extended_gap: the wheel and the residues its two loops visit.      *)
(***************************************************************************)
wheel_primes == {2, 3, 5, 7}

(* wheel: the product of the wheel primes that divide D *)
wheel_d(c) == Product({p \in wheel_primes : c.d % p = 0})

(* The hack for minc == 1: only mstart % wheel and its negative are kept. *)
WheelSkipped(c, m) ==
    /\ c.minc = 1
    /\ c.mstart % wheel_d(c) # m
    /\ c.mstart % wheel_d(c) # wheel_d(c) - m

(* The m both loops go through: the keys of coprime_ms after the first     *)
(* loop, and of extended_record_high and extended_extended_record after    *)
(* the second.                                                             *)
coprime_ms_keys(c) ==
    {m \in 0..(wheel_d(c) - 1) : ~WheelSkipped(c, m) /\ GCD(m, wheel_d(c)) = 1}

(* coprime_ms.at(m) and coprime_ms.at(wheel - m) of the second loop: at()  *)
(* throws std::out_of_range for a key that is not in the map.              *)
ExtendedLookupsOK(c) ==
    \A m \in coprime_ms_keys(c) :
        m \in coprime_ms_keys(c) /\ (wheel_d(c) - m) \in coprime_ms_keys(c)

(* run_gap_file: extended_record_high.at(m % wheel_d) and                  *)
(* .at(wheel_d - m % wheel_d), extended_extended_record.at(m % wheel_d)    *)
RunLookupsOK(c) ==
    \A i \in 1..Len(M_valsOf(c)) :
        LET m_high == M_valsOf(c)[i] % wheel_d(c)
        IN  m_high \in coprime_ms_keys(c)
            /\ (wheel_d(c) - m_high) \in coprime_ms_keys(c)

(* prob_record_vs_plimit(config); return 0.  setup_probnth runs for the    *)
(* lines of the file whose prime is at least 5,000,000.                    *)
EstPlimit ==
    /\ est.pc = "plimit"
    /\ \E big \in BOOLEAN :
           IF big /\ ~ExtendedLookupsOK(config)
           THEN est' = [est EXCEPT !.pc = "terminate"]
           ELSE est' = [EstExit(0) EXCEPT !.tables = TRUE]
    /\ UNCHANGED << store, sieve_vars >>

(* prime_gap_stats up to the call of store_stats: setup_probnth builds the *)
(* tables (an exception of a map lookup is not caught: the process is      *)
(* terminated), run_gap_file fills the per-m and per-gap vectors, and      *)
(* probs_record must not be in descending order.                           *)
EstStats ==
    /\ est.pc = "stats"
    /\ \E pr \in [1..Len(M_valsOf(config)) -> 0..1] :
       \E gaps \in SUBSET StatGaps :
       \E secs \in 0..1 :
           IF ~ExtendedLookupsOK(config) \/ ~RunLookupsOK(config)
           THEN est' = [est EXCEPT !.pc = "terminate"]
           ELSE IF IsSortedDescending(pr)
           THEN est' = [est EXCEPT !.pc = "abort", !.tables = TRUE,
                                   !.probs_record = pr, !.gaps = gaps]
           ELSE est' = [est EXCEPT !.pc = IF est.save_unknowns
                                          THEN "store" ELSE "finish",
                                   !.tables = TRUE, !.probs_record = pr,
                                   !.gaps = gaps, !.secs = secs]
    /\ UNCHANGED << store, sieve_vars >>

(* The range row after INSERT ... ON CONFLICT(rid) DO UPDATE SET           *)
(* time_stats = secs                                                       *)
UpsertRange(r, secs) ==
    IF r = << >> THEN [time_sieve |-> 0, time_stats |-> secs]
    ELSE [r EXCEPT !.time_stats = secs]

(* store_stats: the asserts, BEGIN TRANSACTION and the range upsert *)
StoreBegin ==
    /\ est.pc = "store"
    /\ IF is_range_already_processed(store)
       THEN /\ est' = [est EXCEPT !.pc = "abort", !.entered = TRUE]
            /\ UNCHANGED store
       ELSE \E begin_ok \in BOOLEAN : \E upsert_ok \in BOOLEAN :
              IF begin_ok /\ upsert_ok
              THEN /\ store' = [store EXCEPT !.tx =
                                   [range |-> UpsertRange(store.range, est.secs),
                                    range_stats |-> store.range_stats,
                                    m_stats |-> store.m_stats]]
                   /\ est' = [est EXCEPT !.pc = "range_stats"]
              ELSE /\ est' = EstExit(1)
                   /\ UNCHANGED store
    /\ UNCHANGED sieve_vars

(* The prepare of the range_stats statement and the loop over the gaps:    *)
(* a failed bind or step breaks out of the loop.                           *)
StoreRangeStats ==
    /\ est.pc = "range_stats"
    /\ \E prepare_ok \in BOOLEAN :
       \E fail \in 0..Cardinality(est.gaps) :
           IF ~prepare_ok
           THEN /\ est' = EstExit(1)
                /\ store' = [store EXCEPT !.tx = << >>]
           ELSE /\ store' = [store EXCEPT !.tx.range_stats =
                                @ \cup InsertedBefore(SortedSeq(est.gaps), fail)]
                /\ est' = [est EXCEPT !.pc = "m_stats",
                                      !.failed = @ \/ fail # 0]
    /\ UNCHANGED sieve_vars

(* The prepare of the m_stats statement and the loop over M_vals *)
StoreMStats ==
    /\ est.pc = "m_stats"
    /\ \E prepare_ok \in BOOLEAN :
       \E fail \in 0..Len(M_valsOf(config)) :
           IF ~prepare_ok
           THEN /\ est' = EstExit(1)
                /\ store' = [store EXCEPT !.tx = << >>]
           ELSE /\ store' = [store EXCEPT !.tx.m_stats =
                                @ \cup InsertedBefore(M_valsOf(config), fail)]
                /\ est' = [est EXCEPT !.pc = "end_tx",
                                      !.failed = @ \/ fail # 0]
    /\ UNCHANGED sieve_vars

(* END TRANSACTION *)
StoreEnd ==
    /\ est.pc = "end_tx"
    /\ \E end_ok \in BOOLEAN :
           IF end_ok
           THEN /\ store' = [range |-> store.tx.range,
                             range_stats |-> store.tx.range_stats,
                             m_stats |-> store.tx.m_stats, tx |-> << >>]
                /\ est' = [est EXCEPT !.pc = "finish", !.committed = TRUE]
           ELSE /\ store' = [store EXCEPT !.tx = << >>]
                /\ est' = EstExit(1)
    /\ UNCHANGED sieve_vars

(* prime_gap_stats returns; main returns 0 *)
EstFinish ==
    /\ est.pc = "finish"
    /\ est' = EstExit(0)
    /\ UNCHANGED << store, sieve_vars >>

(* Another estimator run on the same range commits its statistics while no *)
(* transaction of this run is open.                                        *)
other_store_stats ==
    /\ est.pc \in {"stats", "store"}
    /\ store.tx = << >>
    /\ ~is_range_already_processed(store)
    /\ store' = [range |-> UpsertRange(store.range, 1),
                 range_stats |-> StatGaps,
                 m_stats |-> SeqRange(M_valsOf(config)), tx |-> << >>]
    /\ UNCHANGED << est, sieve_vars >>

NextStats ==
    \/ EstMain \/ EstPlimit \/ EstStats
    \/ StoreBegin \/ StoreRangeStats \/ StoreMStats \/ StoreEnd
    \/ EstFinish \/ other_store_stats

SpecStats == InitStats /\ [][NextStats]_vars

(***************************************************************************)
(* Properties.                                                             *)
(***************************************************************************)
StreamPrimes == {PrimeStream[i] : i \in 1..NumPrimes}

Abs(x) == IF x < 0 THEN 0 - x ELSE x

(* The number m K + x at signed distance x is free of the primes of K and  *)
(* of every prime up to SMALL_THRESHOLD.                                   *)
OffsetClear(m, x) ==
    /\ GCD(K, Abs(x)) = 1
    /\ \A q \in {r \in StreamPrimes : r <= SMALL_THRESHOLD} : (m * K + x) % q # 0

(* C1: for every valid m, every offset written to the unknown line of m by *)
(* the method-2 sieve lies at a distance coprime to K, and its number      *)
(* m K + x is divisible by no prime q <= SMALL_THRESHOLD.                  *)
C1_UnknownsClearOfSmallPrimes ==
    ~config.method1 =>
        \A i \in 1..Len(lines) :
            LET m == config.mstart + lines[i].mi
            IN  /\ GCD(m, config.d) = 1
                /\ \A k \in 1..Len(lines[i].low) : OffsetClear(m, 0 - lines[i].low[k])
                /\ \A k \in 1..Len(lines[i].high) : OffsetClear(m, lines[i].high[k])

C1_Witness ==
    /\ ~config.method1
    /\ pc = "done"
    /\ \E i \in 1..Len(lines) :
           /\ Len(lines[i].low) > 0
           /\ Len(lines[i].high) > 1
           /\ lines[i].high[2] > 1

(* C2: for every valid m, whatever sieve steps have run, the centre is     *)
(* composite: in method 2 index SL is mapped to the sentinel index 0 and   *)
(* bit 0 of the bitmap of m is set; in method 1 composite[0][0] and        *)
(* composite[1][0] are set once the per-m reset of a valid m has run.      *)
C2_CentreComposite ==
    /\ ~config.method1 =>
           \A mii \in 1..Len(valid_mi) :
               /\ RowOf(config, i_reindex_wheel, valid_mi[mii])[SL] = 0
               /\ composite[mii][0]
    /\ (config.method1 /\ pc \in {"m1_loop", "done"} /\ m1.s_tests > 0) =>
           (composite[1][0] /\ composite[2][0])

C2_Witness ==
    /\ ~config.method1
    /\ pc = "after_loop"
    /\ Len(valid_mi) > 1
    /\ callbacks.prime > MEDIUM_THRESHOLD
    /\ \E mii \in 1..Len(valid_mi) : \E idx \in DOMAIN composite[mii] :
           idx # 0 /\ composite[mii][idx]

(* The mi at the head of each line of a file. *)
LeadingMis(s) ==
    LET starts == SortedSeq({i \in 1..Len(s) : i = 1 \/ s[i - 1] = CH_NL})
    IN  [i \in 1..Len(starts) |-> ReadInt(s, starts[i]).val]

C4_EncodingsDecodeAlike ==
    \A r \in BOOLEAN :
        codec.dec[r] # << >> =>
            /\ codec.dec[r].ok
            /\ codec.dec[r].mtest = codec.mi
            /\ codec.dec[r].low = SortedSeq(codec.low)
            /\ codec.dec[r].high = SortedSeq(codec.high)
            /\ codec.dec[r].unknown_l = Cardinality(codec.low)
            /\ codec.dec[r].unknown_u = Cardinality(codec.high)

(* C5: modulo_search_euclid_gcd(M_start, D, M_inc, SL, p, r), for p > 2 SL,*)
(* gives the least mi of [0, M_inc) with gcd(M_start + mi, D) = 1 and      *)
(* ((M_start + mi) r + SL) mod p <= 2 SL, and M_inc when there is none:    *)
(* every search method 1 makes for a prime, the first placement and each   *)
(* re-queueing from start = mi + 1, gives the mi a scan of [start, M_inc)  *)
(* finds, and the asserts that follow the calls hold.                      *)
LeastQualifying(c, pr, start) ==
    LET Q == {mi \in start..(c.minc - 1) :
                 /\ GCD(c.mstart + mi, c.d) = 1
                 /\ ((c.mstart + mi) * pr[2] + c.sieve_length) % pr[1]
                        <= 2 * c.sieve_length}
    IN  IF Q = {} THEN c.minc ELSE SetMin(Q)

C7_RunEndsWithFileRowAndExitZero ==
    (pc \in {"exit", "done"} /\ signals = 0) =>
        /\ exit_code = 0
        /\ unknown_file # << >>
        /\ range_row # << >>

(* C8: when exactly one cancel signal arrived while the sieve was running, *)
(* the sieve ends with MAX_PRIME replaced by a multiple of 10^6 not above  *)
(* the original, the unknown file written, the range row persisted with    *)
(* that MAX_PRIME and exit code 0, whatever prime the sieve had reached.   *)
C8_SingleCancelSavesAndExitsZero ==
    (~config.method1 /\ signals = 1 /\ ~Running) =>
        /\ pc = "done"
        /\ exit_code = 0
        /\ unknown_file # << >>
        /\ range_row # << >>
        /\ range_row.max_prime = config.max_prime
        /\ range_row.max_prime % MILLION = 0
        /\ range_row.max_prime <= SetMax(MaxPrimes)

(* C10: a second cancel signal, delivered when g_control_c is already      *)
(* true, ends the process with exit code 2 and then neither the unknown    *)
(* file nor the range row has been written; a first signal only sets the   *)
(* flag and never ends the process by itself (method-2 runs).               *)
C10_SecondCancelExitsTwoNothingWritten ==
    ~config.method1 =>
        /\ signals = 2 => (pc = "exit" /\ exit_code = 2
                           /\ unknown_file = << >> /\ range_row = << >>)
        /\ signals = 1 => (pc # "killed" /\ g_control_c)

(* C9 as it is stated: the cancel flag is acted on only at print-interval  *)
(* boundaries, and it is never read inside the loops of Phase A.           *)
C9_FlagNeverReadInPhaseA ==
    /\ \A r \in flag_reads : r.phase # "small"
    /\ (pc = "exit" /\ exit_code = 2 /\ signals = 1) =>
           \E r \in flag_reads : r.phase = "large" /\ r.prime = prime

(* C9, amended: a cancel stops the sieve only in the print block of the    *)
(* large-prime loop, after the prime with prime >= next_print has been     *)
(* crossed off in full; the flag is read only in a print block, that of    *)
(* Phase A's outer loop (through method2_increment_print) included, never  *)
(* in the loops inside it, and a read in Phase A or in the medium-prime    *)
(* loop never stops the loop.                                              *)
C9_CancelStop ==
    /\ pc = "large"
    /\ signals' = signals
    /\ pc' \in {"exit", "after_loop"}
    /\ prime <= config.max_prime

C9_CancelActsOnlyInPrintBlock ==
    [][/\ C9_CancelStop =>
              /\ prime >= stats.next_print
              /\ g_control_c
              /\ callbacks'.prime = prime
              /\ composite' = ApplyMarks(config, valid_mi, i_reindex_wheel, composite,
                                         LargeMarks(config, callbacks'.calls))
       /\ \A r \in flag_reads' \ flag_reads :
              /\ r.phase = "small" => (pc = "small" /\ r.prime = prime'
                                       /\ r.prime >= temp_stats.next_print)
              /\ r.phase # "small" => (pc = r.phase /\ r.prime = prime
                                       /\ r.prime >= stats.next_print)
       /\ (pc \in {"small", "medium"} /\ signals' = signals) =>
              pc' \in {"small", "small_done", "medium", "large", "abort"}
      ]_vars

C9_Witness ==
    /\ pc = "after_loop"
    /\ g_control_c
    /\ prime <= SetMax(MaxPrimes)
    /\ config.max_prime < prime
    /\ config.max_prime % MILLION = 0
    /\ \E r \in flag_reads : r.phase = "small"

(* The store held, when the estimator started, a range row of this rid     *)
(* with time_stats > 0.                                                    *)
ProcessedAtStart ==
    est.store0.range # << >> /\ est.store0.range.time_stats > 0

C12_StoreStatsAllOrNothing ==
    /\ est.pc \in {"range_stats", "m_stats", "end_tx"} =>
           /\ store.tx # << >>
           /\ store.tx.range # << >>
           /\ store.range = est.store0.range
           /\ store.range_stats = est.store0.range_stats
           /\ store.m_stats = est.store0.m_stats
    /\ est.failed =>
           /\ ~est.committed
           /\ est.pc \in {"exit", "abort"} => est.exit_code = 1
    /\ est.committed =>
           /\ est.gaps \subseteq store.range_stats
           /\ SeqRange(M_valsOf(config)) \subseteq store.m_stats

(***************************************************************************)
(* The estimator's tables (gap_stats.cpp: get_record_gaps,                 *)
(* load_possible_records, setup_probnth, run_gap_file).                    *)
(*                                                                         *)
(* Sizes are scaled with the sieve length of the model: MAX_GAP is         *)
(* 1,000,000 and MISSING_GAPS_LOW is 113,326 in the source.  log values    *)
(* (N_log, log(max_prime) e^gamma) are whole numbers drawn from small      *)
(* sets.  A probability is a whole number of PROB_ONE-ths; a product of    *)
(* two probabilities is rounded down.                                      *)
(***************************************************************************)
MAX_GAP == 80
MISSING_GAPS_LOW == 56
PROB_ONE == 1024
GAP_INF == 1000000
NaN == 0 - 1
MAX_MERIT == 35

NLogs == {2, 4}
SieveFactors == {1, 2}
RecordLogs == {4, 100}
KnownUpto == {0, 6, 40, 54, 56}

Evens(lo, hi) == {g \in lo..hi : g % 2 = 0}

(* A row of table gaps: gapsize and merit (in thousandths), the merit of a *)
(* gap found at a prime whose log is log_start.                            *)
GapRow(g, log_start) == [gapsize |-> g, merit |-> (g * 1000) \div log_start]

RecordDbs ==
    {{GapRow(g, l) : g \in Evens(2, k)} : k \in KnownUpto, l \in RecordLogs}
    \cup {{GapRow(6, l)} : l \in RecordLogs}
    \cup {{GapRow(g, IF g < 30 THEN 3 ELSE 100) : g \in Evens(2, 40)}}

(* records: GAP_INF everywhere, then gap / merit for every row whose gap   *)
(* is below the size of the table.                                         *)
get_record_gaps(c, rows) ==
    LET records_size == IF MAX_GAP >= SieveInterval(c) THEN MAX_GAP ELSE SieveInterval(c)
    IN  [gap \in 0..(records_size - 1) |->
            IF \E r \in rows : r.gapsize = gap
            THEN LET r == CHOOSE r \in rows : r.gapsize = gap
                 IN  (gap * 1000) \div r.merit
            ELSE GAP_INF]

(* The test of line 218 taken as records[g] >= N_log. *)
IsPossibleRecordGeq(N_log, rec) == rec >= N_log

(* if (records[g] > N_log) *)
IsPossibleRecord(N_log, rec) == rec > N_log

(* The loop of load_possible_records from g on: it ends at the size of the *)
(* table, breaks at the first g with g / N_log > 35 and appends the g that *)
(* pass the test.                                                          *)
RECURSIVE LoadLoop(_, _, _, _)
LoadLoop(g, N_log, records, acc) ==
    IF g >= Cardinality(DOMAIN records) THEN acc
    ELSE IF g > MAX_MERIT * N_log THEN acc
    ELSE LoadLoop(g + 2, N_log, records,
                  IF IsPossibleRecord(N_log, records[g])
                  THEN Append(acc, g) ELSE acc)

load_possible_records(N_log, records) == LoadLoop(2, N_log, records, << >>)

IsSortedAscending(s) == \A i \in 1..(Len(s) - 1) : s[i] <= s[i + 1]

(* a * b for two probabilities *)
ProbMul(a, b) == (a * b) \div PROB_ONE

(* x / (1 - 1 / prime) for every prime of S, in ascending order *)
RECURSIVE DivideOut(_, _)
DivideOut(x, S) ==
    IF S = {} THEN x
    ELSE LET q == SetMin(S)
         IN  DivideOut((x * q) \div (q - 1), S \ {q})

(* PROB_PRIME = 1 / N_log - 1 / (N_log * N_log) *)
PROB_PRIME(N_log) == (PROB_ONE \div N_log) - (PROB_ONE \div (N_log * N_log))

(* PROB_PRIME_AFTER_SIEVE = PROB_PRIME / UNKNOWNS_AFTER_SIEVE, with        *)
(* sieve_factor for log(max_prime) * exp(GAMMA)                            *)
PROB_PRIME_AFTER_SIEVE(N_log, sieve_factor) == PROB_PRIME(N_log) * sieve_factor

(* prob_prime_coprime: PROB_PRIME corrected for the primes of K and for    *)
(* the wheel primes that divide D                                          *)
prob_prime_coprime(c, N_log) ==
    DivideOut(DivideOut(PROB_PRIME(N_log),
                        {q \in get_sieve_primes(c.p) : c.d % q # 0}),
              {q \in wheel_primes : c.d % q = 0})

(* prob_nth_prime: the loop runs while prob_still_prime exceeds the        *)
(* cutoff, which is below one PROB_ONE-th.                                 *)
RECURSIVE ProbNthLoop(_, _, _)
ProbNthLoop(prob_still_prime, prob_prime, acc) ==
    IF prob_still_prime > 0
    THEN ProbNthLoop(ProbMul(prob_still_prime, PROB_ONE - prob_prime), prob_prime,
                     [prime_nth |-> Append(acc.prime_nth,
                                           ProbMul(prob_still_prime, prob_prime)),
                      great_nth |-> Append(acc.great_nth, prob_still_prime)])
    ELSE acc

prob_nth_prime(prob_prime) ==
    ProbNthLoop(PROB_ONE, prob_prime, [prime_nth |-> << >>, great_nth |-> << >>])

(* prob_combined_gap: prob_prime^2 (1 - prob_prime)^n *)
RECURSIVE ProbCombinedLoop(_, _, _)
ProbCombinedLoop(prob, prob_prime, acc) ==
    IF prob > 0
    THEN ProbCombinedLoop(ProbMul(prob, PROB_ONE - prob_prime), prob_prime,
                          Append(acc, prob))
    ELSE acc

prob_combined_gap(prob_prime) ==
    ProbCombinedLoop(ProbMul(prob_prime, prob_prime), prob_prime, << >>)

(* The lookup taken one entry further on. *)
NthProbOneFurther(prob_nth, nth) ==
    IF nth + 1 < Len(prob_nth) THEN prob_nth[nth + 2] ELSE 0

(* nth < prob_nth.size() ? prob_nth[nth] : 0.0 *)
nth_prob_or_zero(prob_nth, nth) ==
    IF nth < Len(prob_nth) THEN prob_nth[nth + 1] ELSE 0

EXT_SIZE(c) == 2 * c.sieve_length

(* is_coprime[i]: no prime of K divides i *)
is_coprime(c) ==
    [i \in 0..(EXT_SIZE(c) - 1) |->
        ~ \E q \in get_sieve_primes(c.p) : c.d % q # 0 /\ i % q = 0]

(* k_mod_p[p]: the product of the primes of K, mod p *)
k_mod_p(c, p) == Product({q \in get_sieve_primes(c.p) : c.d % q # 0}) % p

(* coprime_ms[m]: is_coprime less the multiples of the wheel primes of D,  *)
(* marked from p - (m * K) % p in steps of p                               *)
is_coprime_m(c, m) ==
    [i \in 0..(EXT_SIZE(c) - 1) |->
        /\ is_coprime(c)[i]
        /\ ~ \E p \in wheel_primes :
               /\ c.d % p = 0
               /\ i >= p - ((m * k_mod_p(c, p)) % p)
               /\ (i - (p - ((m * k_mod_p(c, p)) % p))) % p = 0]

(* count_coprime_m[x]: the partial sums starting at SL + 1 *)
count_coprime_m(c, m, x) ==
    Cardinality({y \in (c.sieve_length + 1)..x : is_coprime_m(c, m)[y]})

(* The loop over poss_record_gaps for one gap_prev, from position k on.    *)
(* dist is unsigned: a record gap below gap_prev wraps to a value beyond   *)
(* the size of is_coprime_m and ends the loop.                             *)
RECURSIVE ExtendedRecordLoop(_, _, _, _, _, _, _)
ExtendedRecordLoop(c, m, gap_prev, poss, nth_out, k, prob_record) ==
    IF k > Len(poss) THEN prob_record
    ELSE IF poss[k] < gap_prev THEN prob_record
    ELSE LET dist == poss[k] - gap_prev
         IN  IF dist <= c.sieve_length
             THEN ExtendedRecordLoop(c, m, gap_prev, poss, nth_out, k + 1, prob_record)
             ELSE IF dist >= EXT_SIZE(c) THEN prob_record
             ELSE IF ~is_coprime_m(c, m)[dist]
             THEN ExtendedRecordLoop(c, m, gap_prev, poss, nth_out, k + 1, prob_record)
             ELSE IF count_coprime_m(c, m, dist) >= Len(nth_out) THEN prob_record
             ELSE ExtendedRecordLoop(c, m, gap_prev, poss, nth_out, k + 1,
                     prob_record + nth_out[count_coprime_m(c, m, dist) + 1])

(* prob_extended_record with 0.0 kept where gap_prev cannot be coprime. *)
ProbExtendedRecordNoNaN(c, m, poss, nth_out) ==
    [gap_prev \in 0..c.sieve_length |->
        IF gap_prev = 0 THEN 0
        ELSE IF ~is_coprime_m(c, wheel_d(c) - m)[gap_prev] THEN 0
        ELSE IF gap_prev + EXT_SIZE(c) < poss[1] THEN 0
        ELSE ExtendedRecordLoop(c, m, gap_prev, poss, nth_out, 1, 0)]

(* prob_extended_record of residue m: entry 0 keeps its 0.0, an entry that *)
(* cannot be coprime is set to NaN, an entry too far below MIN_RECORD      *)
(* keeps its 0.0, every other entry is the sum of the loop.                *)
prob_extended_record(c, m, poss, nth_out) ==
    [gap_prev \in 0..c.sieve_length |->
        IF gap_prev = 0 THEN 0
        ELSE IF ~is_coprime_m(c, wheel_d(c) - m)[gap_prev] THEN NaN
        ELSE IF gap_prev + EXT_SIZE(c) < poss[1] THEN 0
        ELSE ExtendedRecordLoop(c, m, gap_prev, poss, nth_out, 1, 0)]

(* assert(prob_record >= 0 && prob_record < 1) for every sum stored *)
ExtendedRecordAssertOK(c, m, poss, nth_out) ==
    \A gap_prev \in 1..c.sieve_length :
        (is_coprime_m(c, wheel_d(c) - m)[gap_prev] /\ gap_prev + EXT_SIZE(c) >= poss[1])
            => LET s == ExtendedRecordLoop(c, m, gap_prev, poss, nth_out, 1, 0)
               IN  s >= 0 /\ s < PROB_ONE

(* extended_coprime: the x of SL + 1 .. EXT_SIZE - 1 with is_coprime_m[x] *)
extended_coprime(c, m) ==
    SortedSeq({x \in (c.sieve_length + 1)..(EXT_SIZE(c) - 1) : is_coprime_m(c, m)[x]})

(* The loop over gap_prev = SL + 1 .. EXT_SIZE - 1 that sums               *)
(* prob_e2_record.  s holds gap_prev, extended_coprimes_prev, min_e_c_i,   *)
(* max_e_c_i, the sum, and ok (no assertion has failed).  The assertion    *)
(* on extended_coprime[min_e_c_i] reads one element past the end of the    *)
(* vector when min_e_c_i is still its size: oob_pass is the outcome of     *)
(* that read.                                                              *)
RECURSIVE E2Loop(_, _, _, _, _, _, _)
E2Loop(c, m, poss, records, N_log, oob_pass, s) ==
    LET ec == extended_coprime(c, m)
        n == Len(ec)
        nth == prob_nth_prime(prob_prime_coprime(c, N_log))
        MIN_RECORD == poss[1]
        MAX_RECORD == poss[Len(poss)]
        gp == s.gap_prev
        sum(j) == gp + ec[j + 1]
    IN  IF gp >= EXT_SIZE(c) THEN s
        ELSE IF ~is_coprime_m(c, wheel_d(c) - m)[gp]
        THEN E2Loop(c, m, poss, records, N_log, oob_pass, [s EXCEPT !.gap_prev = gp + 1])
        ELSE
        LET prev == s.prev + 1
        IN  IF prev >= Len(nth.prime_nth) THEN s
            ELSE
            LET max1 == SetMax({j \in 0..s.max_i : j = 0 \/ sum(j) <= MAX_RECORD})
                min1 == SetMax({j \in 0..s.min_i : j = 0 \/ sum(j - 1) < MIN_RECORD})
            IN  IF max1 = 0
                THEN [s EXCEPT !.ok = (min1 = 0),
                               !.val = s.val + nth.great_nth[prev]]
                ELSE
                LET a1 == IF min1 = n THEN oob_pass ELSE sum(min1) >= MIN_RECORD
                    a2 == sum(max1) <= MAX_RECORD
                    a3 == min1 = 0 \/ sum(min1 - 1) < MIN_RECORD
                    a4 == max1 = n - 1 \/ sum(max1 + 1) > MAX_RECORD
                    room == Len(nth.prime_nth) - prev + 1
                    loop_max == IF max1 <= room THEN max1 ELSE room
                    terms == {i \in min1..(loop_max - 1) : records[sum(i)] > N_log}
                    RECURSIVE Sum(_)
                    Sum(I) == IF I = {} THEN 0
                              ELSE LET i == SetMin(I)
                                   IN  nth.prime_nth[i + 1] + Sum(I \ {i})
                    prob_e_e == Sum(terms) + nth_prob_or_zero(nth.great_nth, loop_max)
                IN  IF ~(a1 /\ a2 /\ a3 /\ a4)
                    THEN [s EXCEPT !.ok = FALSE]
                    ELSE E2Loop(c, m, poss, records, N_log, oob_pass,
                            [s EXCEPT !.gap_prev = gp + 1, !.prev = prev,
                                      !.min_i = min1, !.max_i = max1,
                                      !.val = s.val + ProbMul(prob_e_e,
                                                  nth_prob_or_zero(nth.prime_nth, prev))])

(* extended_extended_record[m] and whether its assertions held *)
extended_extended_record(c, m, poss, records, N_log, oob_pass) ==
    E2Loop(c, m, poss, records, N_log, oob_pass,
           [gap_prev |-> c.sieve_length + 1, prev |-> 0,
            min_i |-> Len(extended_coprime(c, m)),
            max_i |-> Len(extended_coprime(c, m)) - 1,
            val |-> 0, ok |-> TRUE])

(* average_extended_coprime: the mean over the residues of the number of   *)
(* coprime positions of SL .. EXT_SIZE - 1, and prob_greater_extended      *)
average_coprime(c) ==
    LET keys == coprime_ms_keys(c)
        RECURSIVE Total(_)
        Total(S) == IF S = {} THEN 0
                    ELSE LET m == SetMin(S)
                         IN  Cardinality({x \in c.sieve_length..(EXT_SIZE(c) - 1) :
                                             is_coprime_m(c, m)[x]})
                             + Total(S \ {m})
    IN  Total(keys) \div Cardinality(keys)

prob_greater_extended(c, N_log) ==
    nth_prob_or_zero(prob_nth_prime(prob_prime_coprime(c, N_log)).great_nth,
                     average_coprime(c))

(* setup_probnth: the tables of ProbNth *)
setup_probnth(c, N_log, sieve_factor, poss, records, oob_pass) ==
    LET sieve == prob_nth_prime(PROB_PRIME_AFTER_SIEVE(N_log, sieve_factor))
        out == prob_nth_prime(prob_prime_coprime(c, N_log))
        keys == coprime_ms_keys(c)
    IN  [prime_nth_sieve |-> sieve.prime_nth,
         great_nth_sieve |-> sieve.great_nth,
         combined_sieve |-> prob_combined_gap(PROB_PRIME_AFTER_SIEVE(N_log, sieve_factor)),
         wheel_d |-> wheel_d(c),
         average_coprime |-> average_coprime(c),
         prob_greater_extended |-> prob_greater_extended(c, N_log),
         extended_record_high |->
             [m \in keys |-> prob_extended_record(c, m, poss, out.prime_nth)],
         extended_extended_record |->
             [m \in keys |->
                 extended_extended_record(c, m, poss, records, N_log, oob_pass).val]]

SetupAssertsHold(c, N_log, poss, records, oob_pass) ==
    \A m \in coprime_ms_keys(c) :
        /\ ExtendedRecordAssertOK(c, m, poss,
               prob_nth_prime(prob_prime_coprime(c, N_log)).prime_nth)
        /\ extended_extended_record(c, m, poss, records, N_log, oob_pass).ok

(* The sum of the values of a function with a finite domain. *)
SumFn(f) ==
    LET RECURSIVE S(_)
        S(D) == IF D = {} THEN 0
                ELSE LET x == CHOOSE x \in D : TRUE IN f[x] + S(D \ {x})
    IN  S(DOMAIN f)

(* run_gap_file, one pass of its loop over valid_m: the line of m with the *)
(* offsets low and high (ascending).  log(m) is taken as log(mstart), so   *)
(* log_start_prime is N_log.  sieve_length is below 100,000: the inner     *)
(* loop of the direct part starts at j = 0.                                *)
RunLine(c, gp, records, N_log, min_record_gap, m, low, high) ==
    LET PROB_PREV_GREATER == nth_prob_or_zero(gp.great_nth_sieve, Len(low))
        PROB_NEXT_GREATER == nth_prob_or_zero(gp.great_nth_sieve, Len(high))
        prob_extended == gp.prob_greater_extended
        prob_seen == ProbMul(PROB_ONE - ProbMul(PROB_PREV_GREATER, prob_extended),
                             PROB_ONE - ProbMul(PROB_NEXT_GREATER, prob_extended))
        nc == Len(gp.combined_sieve)
        direct_max_i == IF Len(low) <= nc THEN Len(low) ELSE nc
        max_j(i) == IF Len(high) <= nc - i THEN Len(high) ELSE nc - i
        pairs == {ij \in (0..(direct_max_i - 1)) \X (0..(Len(high) - 1)) :
                     /\ ij[2] < max_j(ij[1])
                     /\ low[ij[1] + 1] + high[ij[2] + 1] >= min_record_gap
                     /\ records[low[ij[1] + 1] + high[ij[2] + 1]] > N_log}
        prob_record == SumFn([ij \in pairs |-> gp.combined_sieve[ij[1] + ij[2] + 1]])
        m_high == m % gp.wheel_d
        extended_record_high == gp.extended_record_high[m_high]
        extended_record_low == gp.extended_record_high[gp.wheel_d - m_high]
        longest == IF Len(low) >= Len(high) THEN Len(low) ELSE Len(high)
        ext_max_i == IF Len(gp.prime_nth_sieve) <= longest
                     THEN Len(gp.prime_nth_sieve) ELSE longest
        lows == {i \in 0..(ext_max_i - 1) : i < Len(low)}
        highs == {i \in 0..(ext_max_i - 1) : i < Len(high)}
        prob_i(i) == gp.prime_nth_sieve[i + 1]
        prob_record_extended ==
            SumFn([i \in lows |->
                      ProbMul(ProbMul(prob_i(i), PROB_NEXT_GREATER),
                              extended_record_high[low[i + 1]])])
            + SumFn([i \in highs |->
                      ProbMul(ProbMul(prob_i(i), PROB_PREV_GREATER),
                              extended_record_low[high[i + 1]])])
        prob_record_extended2 ==
            ProbMul(ProbMul(PROB_NEXT_GREATER, PROB_PREV_GREATER),
                    gp.extended_extended_record[m_high])
    IN  [m |-> m, low |-> low, high |-> high,
         ok |-> /\ \A i \in lows : /\ extended_record_high[low[i + 1]] >= 0
                                   /\ extended_record_high[low[i + 1]] < PROB_ONE
                /\ \A i \in highs : /\ extended_record_low[high[i + 1]] >= 0
                                    /\ extended_record_low[high[i + 1]] < PROB_ONE,
         prob_seen |-> prob_seen,
         prob_inner |-> prob_record,
         prob_extended |-> prob_record_extended,
         prob_extended2 |-> prob_record_extended2,
         prob_record |-> prob_record + prob_record_extended + prob_record_extended2,
         e_prev |-> SumFn([i \in lows |-> low[i + 1] * prob_i(i)]),
         e_next |-> SumFn([i \in highs |-> high[i + 1] * prob_i(i)])]

(***************************************************************************)
(* prime_gap_stats with its tables: the record table is loaded, the        *)
(* possible record gaps are listed, setup_probnth builds the tables and    *)
(* run_gap_file goes through the lines of the unknown file.  est keeps the *)
(* result of the last line, the number of lines done and whether           *)
(* probs_record is in descending order so far.                             *)
(***************************************************************************)
ProbConfigs == {c \in StatsConfigs : c.mstart <= 2 /\ c.minc <= 2}

(* The sides a line of the unknown file can hold: none, the first, the     *)
(* first two or all of the offsets of 1 .. SL that are coprime.            *)
LineSides(c, m) ==
    LET all == SortedSeq({x \in 1..c.sieve_length : is_coprime_m(c, m)[x]})
    IN  {SubSeq(all, 1, k) : k \in {0, 1, 2, Len(all)} \cap (0..Len(all))}

InitProb ==
    /\ config \in ProbConfigs
    /\ codec = << >>
    /\ m1 = << >>
    /\ store = << >>
    /\ InitCommon
    /\ \E N_log \in NLogs, sieve_factor \in SieveFactors, rows \in RecordDbs :
           est = [pc |-> "records", N_log |-> N_log, sieve_factor |-> sieve_factor,
                  rows |-> rows, records |-> << >>, poss |-> << >>,
                  warned |-> FALSE, gap_probs |-> << >>,
                  n |-> 0, last |-> << >>, desc |-> TRUE]

(* get_record_gaps, load_possible_records with its assertions, the         *)
(* assertion on the size of the list and the warning.  front() of an empty *)
(* list is undefined; the assertion on the size fails right after it.      *)
ProbRecords ==
    /\ est.pc = "records"
    /\ LET records == get_record_gaps(config, est.rows)
           poss == load_possible_records(est.N_log, records)
       IN  IF poss = << >>
           THEN est' = [est EXCEPT !.pc = "abort", !.records = records]
           ELSE IF ~(IsSortedAscending(poss) /\ poss[1] <= MISSING_GAPS_LOW)
           THEN est' = [est EXCEPT !.pc = "abort", !.records = records, !.poss = poss]
           ELSE IF Len(poss) < 2
           THEN est' = [est EXCEPT !.pc = "abort", !.records = records, !.poss = poss]
           ELSE est' = [est EXCEPT !.pc = "setup", !.records = records, !.poss = poss,
                                   !.warned = poss[1] > 3 * config.sieve_length]
    /\ UNCHANGED << store, sieve_vars >>

(* setup_probnth *)
ProbSetup ==
    /\ est.pc = "setup"
    /\ IF ~ExtendedLookupsOK(config)
       THEN est' = [est EXCEPT !.pc = "terminate"]
       ELSE \E oob_pass \in BOOLEAN :
              IF SetupAssertsHold(config, est.N_log, est.poss, est.records, oob_pass)
              THEN est' = [est EXCEPT !.pc = "run",
                              !.gap_probs = setup_probnth(config, est.N_log,
                                                est.sieve_factor, est.poss,
                                                est.records, oob_pass)]
              ELSE est' = [est EXCEPT !.pc = "abort"]
    /\ UNCHANGED << store, sieve_vars >>

(* One pass of the loop of run_gap_file. *)
ProbRunLine ==
    /\ est.pc = "run"
    /\ est.n < Len(M_valsOf(config))
    /\ LET m == M_valsOf(config)[est.n + 1]
           m_high == m % wheel_d(config)
       IN  \E low \in LineSides(config, wheel_d(config) - m_high) :
           \E high \in LineSides(config, m_high) :
              LET r == RunLine(config, est.gap_probs, est.records, est.N_log,
                               est.poss[1], m, low, high)
              IN  IF r.ok
                  THEN est' = [est EXCEPT !.n = est.n + 1, !.last = r,
                                  !.desc = est.desc /\ (est.n = 0 \/
                                              est.last.prob_record >= r.prob_record)]
                  ELSE est' = [est EXCEPT !.pc = "abort", !.last = r]
    /\ UNCHANGED << store, sieve_vars >>

(* After the last line: assert(!is_sorted(probs_record, greater)). *)
ProbDone ==
    /\ est.pc = "run"
    /\ est.n = Len(M_valsOf(config))
    /\ est' = [est EXCEPT !.pc = IF est.desc THEN "abort" ELSE "done"]
    /\ UNCHANGED << store, sieve_vars >>

NextProb == ProbRecords \/ ProbSetup \/ ProbRunLine \/ ProbDone

SpecProb == InitProb /\ [][NextProb]_vars

(***************************************************************************)
(* Phase A slices (prime_gap_parallel, the loop over valid_mi_split).      *)
(***************************************************************************)
THREADS == 1

(* valid_mi_split[i * THREADS / valid_mi.size()].push_back(valid_mi[i]),   *)
(* with the slice's last element left out.                                 *)
SliceDropLast(vmi, t) ==
    LET idx == {i \in 1..Len(vmi) : ((i - 1) * THREADS) \div Len(vmi) = t}
    IN  SortedSeq({vmi[i] : i \in idx \ {Len(vmi)}})

(* valid_mi_split[t] once the filling loop has run *)
Slice(vmi, t) ==
    LET idx == {i \in 1..Len(vmi) : ((i - 1) * THREADS) \div Len(vmi) = t}
    IN  SortedSeq({vmi[i] : i \in idx})

valid_mi_split(vmi) == [t \in 0..(THREADS - 1) |-> Slice(vmi, t)]

(* The objects one run of method2_small_primes over a slice writes that    *)
(* outlive the call: composite[m_reindex[mi]] of each mi of the slice, and *)
(* the fields of the caller's stats it adds to or assigns.                 *)
SliceBitmaps(vmi, slice) ==
    {[obj |-> "composite", at |-> m_reindex(vmi, slice[i])] : i \in 1..Len(slice)}

SliceStatsWrites(printed) ==
    {[obj |-> "stats.small_prime_factors_interval", at |-> 0],
     [obj |-> "stats.validated_factors", at |-> 0]}
    \cup (IF printed THEN {[obj |-> "stats.current_prob_prime", at |-> 0]} ELSE {})

SliceWrites(vmi, slice, printed) ==
    SliceBitmaps(vmi, slice) \cup SliceStatsWrites(printed)

(* The bitmaps Phase A has changed since their allocation. *)
BitmapsWritten ==
    {[obj |-> "composite", at |-> mii] : mii \in
        {j \in 1..Len(valid_mi) :
            composite[j] # AllocComposite(config, valid_mi, i_reindex_wheel)[j]}}

PhaseARan == pc \in {"small", "small_done"} /\ prime > 0

SlicesPartition(vmi) ==
    \A i \in 1..Len(vmi) :
        Cardinality({t \in 0..(THREADS - 1) :
                        vmi[i] \in SeqRange(valid_mi_split(vmi)[t])}) = 1

i_reindex(c) ==
    [X \in 0..(SieveInterval(c) - 1) |->
        IF coprime_composite(c, X)
        THEN Cardinality({j \in 0..X : coprime_composite(c, j)})
        ELSE 0]

(* C14 as stated, for D = 1: the sieve's wheel is 1 and i_reindex_wheel[0] *)
(* equals the plain i_reindex; the estimator's wheel is 1, it builds its   *)
(* tables for residue 0 and no map lookup of the estimator fails.          *)
C14_WheelOneWorks ==
    config.d = 1 =>
        /\ reindex_m_wheel(config) = 1
        /\ BuildIReindexWheel(config)[0] = i_reindex(config)
        /\ wheel_d(config) = 1
        /\ coprime_ms_keys(config) = {0}
        /\ est.pc # "terminate"

(* C14 as stated, for D = P# (K = 1): the set-up of the sieve completes    *)
(* without a failed assertion.                                             *)
C14_KOneSetupCompletes ==
    (KOf(config) = 1 /\ ~config.method1 /\ pc # "main") => pc # "abort"

(***************************************************************************)
(* The tables of prob_extended_gap.                                        *)
(***************************************************************************)
TablesBuilt == est.gap_probs # << >>

(* m K + g has no factor among the primes of K and the wheel primes of D *)
CanBeCoprime(c, m, g) ==
    /\ GCD(g, KOf(c)) = 1
    /\ GCD(m * KOf(c) + g, wheel_d(c)) = 1

(* C15 as stated: after prob_extended_gap every stored                     *)
(* extended_record_high[r][g], g in 1 .. SL, is a number v with            *)
(* 0 <= v < 1, never not-a-number.                                         *)
C15_ExtendedRecordHighAlwaysInUnitInterval ==
    TablesBuilt =>
        \A r \in DOMAIN est.gap_probs.extended_record_high :
            \A g \in 1..config.sieve_length :
                /\ est.gap_probs.extended_record_high[r][g] # NaN
                /\ est.gap_probs.extended_record_high[r][g] >= 0
                /\ est.gap_probs.extended_record_high[r][g] < PROB_ONE

(* C15, amended: after prob_extended_gap the residues that have a table    *)
(* are the residues the loop visits; for g in 1 .. SL the entry            *)
(* extended_record_high[r][g] is a number v with 0 <= v < 1 when           *)
(* (W - r) K + g can be coprime, and not-a-number when it cannot.          *)
C15_ExtendedRecordHighInUnitIntervalOrNaN ==
    TablesBuilt =>
        /\ DOMAIN est.gap_probs.extended_record_high = coprime_ms_keys(config)
        /\ \A r \in DOMAIN est.gap_probs.extended_record_high :
              \A g \in 1..config.sieve_length :
                  LET v == est.gap_probs.extended_record_high[r][g]
                  IN  IF CanBeCoprime(config, wheel_d(config) - r, g)
                      THEN v >= 0 /\ v < PROB_ONE
                      ELSE v = NaN

(* The tables are built; one entry is a positive probability and one is    *)
(* not-a-number.                                                           *)
C15_Witness ==
    /\ TablesBuilt
    /\ est.pc = "run"
    /\ \E r \in DOMAIN est.gap_probs.extended_record_high :
           /\ \E g \in 1..config.sieve_length :
                  est.gap_probs.extended_record_high[r][g] > 0
           /\ \E g \in 1..config.sieve_length :
                  est.gap_probs.extended_record_high[r][g] = NaN

(***************************************************************************)
(* A line of the unknown file with no offset on either side.               *)
(***************************************************************************)
EmptyLineRun ==
    /\ est.last # << >>
    /\ est.last.low = << >>
    /\ est.last.high = << >>

(* C16 as stated: for a line with no offsets on either side the estimator  *)
(* emits prob_seen = 0, a prob_record that is the extended-squared term    *)
(* alone, and E[prev] = E[next] = 0.                                       *)
C16_EmptyLineSeenZero ==
    EmptyLineRun =>
        /\ est.last.prob_seen = 0
        /\ est.last.prob_inner = 0
        /\ est.last.prob_extended = 0
        /\ est.last.prob_record = est.last.prob_extended2
        /\ est.last.e_prev = 0
        /\ est.last.e_next = 0

(* C16, amended: for a line with no offsets on either side PREV_GREATER    *)
(* and NEXT_GREATER are 1, prob_seen is (1 - prob_greater_extended)^2,     *)
(* the direct and the one-side-extended contributions are 0, prob_record   *)
(* is extended_extended_record[m mod W], and E[prev] = E[next] = 0.        *)
C16_EmptyLineSeenExtended ==
    EmptyLineRun =>
        /\ est.last.prob_seen =
               ProbMul(PROB_ONE - est.gap_probs.prob_greater_extended,
                       PROB_ONE - est.gap_probs.prob_greater_extended)
        /\ est.last.prob_inner = 0
        /\ est.last.prob_extended = 0
        /\ est.last.prob_extended2 =
               est.gap_probs.extended_extended_record[est.last.m % est.gap_probs.wheel_d]
        /\ est.last.prob_record = est.last.prob_extended2
        /\ est.last.e_prev = 0
        /\ est.last.e_next = 0

(* A line without offsets has been run; its prob_seen and prob_record are  *)
(* positive.                                                               *)
C16_Witness ==
    /\ EmptyLineRun
    /\ est.pc = "run"
    /\ est.last.prob_seen > 0
    /\ est.last.prob_record > 0
    /\ est.gap_probs.prob_greater_extended > 0

(***************************************************************************)
(* The list of possible record gaps.                                       *)
(***************************************************************************)
(* load_possible_records has returned: its list has a front and the front  *)
(* passed the assertion.                                                   *)
PossibleRecordsReturned ==
    /\ est.pc # "records"
    /\ est.poss # << >>
    /\ est.poss[1] <= MISSING_GAPS_LOW

HasRow(g) == \E r \in est.rows : r.gapsize = g

(* C17: the list load_possible_records returns holds, in ascending order,  *)
(* exactly the even gaps g >= 2 below the size of the record table with    *)
(* records[g] > N_log and g / N_log <= 35; a gap without a row counts as   *)
(* +infinity and so is listed; with the single row of gap 6 the list holds *)
(* 6 only if N_log is below the row's log and holds every other even gap   *)
(* up to merit 35.                                                         *)
C17_PossibleRecordsExactly ==
    PossibleRecordsReturned =>
        LET size == Cardinality(DOMAIN est.records)
            in_range == {g \in 2..(size - 1) : g % 2 = 0 /\ g <= MAX_MERIT * est.N_log}
        IN  /\ \A i \in 1..(Len(est.poss) - 1) : est.poss[i] < est.poss[i + 1]
            /\ SeqRange(est.poss) = {g \in in_range : est.records[g] > est.N_log}
            /\ \A g \in in_range : ~HasRow(g) => g \in SeqRange(est.poss)
            /\ \A l \in RecordLogs :
                  est.rows = {GapRow(6, l)} =>
                      /\ 6 \in SeqRange(est.poss) => est.N_log < l
                      /\ in_range \ {6} \subseteq SeqRange(est.poss)

(* The list was loaded from a table with one row; the gap of the row is    *)
(* not listed and the other even gaps are.                                 *)
C17_Witness ==
    /\ PossibleRecordsReturned
    /\ est.pc = "setup"
    /\ Cardinality(est.rows) = 1
    /\ HasRow(6)
    /\ 6 \notin SeqRange(est.poss)
    /\ {2, 4, 8} \subseteq SeqRange(est.poss)

(***************************************************************************)
(* Possible record gaps far from the sieve.                                *)
(***************************************************************************)
(* The smallest possible record gap is above MISSING_GAPS_LOW, or above    *)
(* three sieve lengths.                                                    *)
LowConfidence ==
    /\ est.pc # "records"
    /\ est.poss # << >>
    /\ \/ est.poss[1] > MISSING_GAPS_LOW
       \/ est.poss[1] > 3 * config.sieve_length

(* C18 as stated: when the smallest possible record gap is above           *)
(* MISSING_GAPS_LOW, or the window of possible record gaps lies near or    *)
(* beyond the sieve bound, the run is not ended by it: the statistics of   *)
(* every line are still computed.                                          *)
C18_LowConfidenceIsNotFatal ==
    (LowConfidence /\ est.pc = "abort") => est.n = Len(M_valsOf(config))

(* The part of C18 about the sieve bound alone: the smallest possible      *)
(* record gap is at most MISSING_GAPS_LOW and above three sieve lengths.   *)
C18_WarningIsNotFatal ==
    (LowConfidence /\ est.poss[1] <= MISSING_GAPS_LOW /\ est.pc = "abort")
        => est.n = Len(M_valsOf(config))

(***************************************************************************)
(* The deltas of the RLE encoder.                                          *)
(***************************************************************************)
(* int delta = i - last, for the unknown i of one side in ascending order, *)
(* last = 0 at first.                                                      *)
RECURSIVE RleDeltas(_, _)
RleDeltas(side, last) ==
    IF side = << >> THEN << >>
    ELSE << Head(side) - last >> \o RleDeltas(Tail(side), Head(side))

(* The deltas the encoder computes for the lines of the sieved bitmaps.    *)
SieveDeltas ==
    UNION {LET row == RowOf(config, i_reindex_wheel, valid_mi[mii])
               ds == RleDeltas(UnknownSide(config, composite[mii], row, d), 0)
           IN  {ds[k] : k \in DOMAIN ds} :
           mii \in 1..Len(valid_mi), d \in {0, 1}}

(* C19 as stated: every delta the RLE encoder computes for a bitmap the    *)
(* sieve has finished lies in [0, RLE_RADIX^2 - 1], so the range assertion *)
(* of the encoder holds and both code bytes fit an unsigned byte.          *)
C19_RleDeltasInRange ==
    (pc = "after_loop" /\ config.rle) =>
        \A delta \in SieveDeltas :
            /\ 0 <= delta
            /\ delta <= RLE_RADIX * RLE_RADIX - 1
            /\ RLE_BASE + (delta \div RLE_RADIX) < 256
            /\ RLE_BASE + (delta % RLE_RADIX) < 256

(* What holds of the deltas: each is at least 1 and at most SL.            *)
C19_RleDeltasWithinSieveLength ==
    (pc = "after_loop" /\ config.rle) =>
        \A delta \in SieveDeltas : 1 <= delta /\ delta <= config.sieve_length

(***************************************************************************)
(* The marks of the medium primes.                                         *)
(***************************************************************************)
(* (M_start + mi) K + (X - SL), the number the bit of (mi, X) stands for   *)
NumberAt(c, mi, X) == (c.mstart + mi) * KOf(c) + (X - c.sieve_length)

(* The primes the medium loop has processed when it stands at prime.       *)
MediumDone ==
    {PrimeStream[i] : i \in {j \in 1..NumPrimes :
        /\ PrimeStream[j] > SMALL_THRESHOLD
        /\ PrimeStream[j] <= MEDIUM_THRESHOLD
        /\ PrimeStream[j] < prime}}

(* The mi the inner loop visits for one X: mi_0, mi_0 + shift, ...         *)
MediumVisited(c, p, X) ==
    LET shift == (1 + (KOf(c) % 2)) * p
    IN  {mi \in 0..(c.minc - 1) :
            /\ mi >= MediumMi0(c, p, X)
            /\ (mi - MediumMi0(c, p, X)) % shift = 0}

(* Every (mi, X) a processed medium prime divides is composite. *)
MediumDivisibleMarked ==
    pc = "medium" =>
        \A q \in MediumDone : \A mii \in 1..Len(valid_mi) : \A X \in coprime_X(config) :
            NumberAt(config, valid_mi[mii], X) % q = 0 =>
                composite[mii][RowOf(config, i_reindex_wheel, valid_mi[mii])[X]]

(* Every bit one pass of the medium loop sets is the bit of an (mi, X)     *)
(* its prime divides.                                                      *)
MediumMarksOnlyDivisible ==
    [][(pc = "medium" /\ pc' = "medium" /\ prime' # prime) =>
          \A mii \in 1..Len(valid_mi) : \A idx \in DOMAIN composite[mii] :
              (composite'[mii][idx] /\ ~composite[mii][idx]) =>
                  \E X \in coprime_X(config) :
                      /\ RowOf(config, i_reindex_wheel, valid_mi[mii])[X] = idx
                      /\ NumberAt(config, valid_mi[mii], X) % prime = 0]_vars

(* For K odd the visited mi are those whose number is an odd multiple of   *)
(* the prime.                                                              *)
MediumVisitsOddMultiples ==
    (pc = "medium" /\ K % 2 = 1 /\ prime <= MEDIUM_THRESHOLD) =>
        \A X \in coprime_X(config) :
            MediumVisited(config, prime, X) =
                {mi \in 0..(config.minc - 1) :
                    /\ NumberAt(config, mi, X) % prime = 0
                    /\ NumberAt(config, mi, X) % 2 = 1}

(* C20 as stated: in the medium-prime phase every (mi, X), mi valid and X  *)
(* coprime, whose number (M_start + mi) K + (X - SL) a processed prime     *)
(* divides is composite, every bit the phase sets belongs to such an       *)
(* (mi, X), and for K odd mi_0 and the step 2 p select exactly the mi      *)
(* whose number is an odd multiple of p, for even and for odd SL.          *)
C20_MediumMarksExactlyDivisible ==
    /\ [] MediumDivisibleMarked
    /\ MediumMarksOnlyDivisible
    /\ [] MediumVisitsOddMultiples

(* The same with the sieve length even, or K even.                         *)
C20_MediumMarksEvenSieveLength ==
    /\ [] ((SL % 2 = 0 \/ K % 2 = 0) => MediumDivisibleMarked)
    /\ [] (SL % 2 = 0 => MediumVisitsOddMultiples)

(***************************************************************************)
(* Phase A: the primes of the batches.                                     *)
(***************************************************************************)
StreamPrimesUpTo(n) ==
    {PrimeStream[i] : i \in {j \in 1..NumPrimes : PrimeStream[j] <= n}}

(* The primes the scan does not skip: not a prime of K (D % prime != 0 &&  *)
(* prime <= P) and not a prime of the wheel.                               *)
SmallProcessed(c, small_threshold) ==
    {q \in StreamPrimesUpTo(small_threshold) :
        /\ ~(c.d % q # 0 /\ q <= c.p)
        /\ reindex_m_wheel(c) % q # 0}

(* The primes with D mod p != 0 and W mod p != 0. *)
SmallNotOfD(c, small_threshold) ==
    {q \in StreamPrimesUpTo(small_threshold) :
        c.d % q # 0 /\ reindex_m_wheel(c) % q # 0}

(* The positions of [0, 2 SL] whose number m K - SL + X the prime divides: *)
(* all of them for the prime 2, those of the odd multiples otherwise.      *)
SmallMultiples(c, m, q) ==
    {x \in 0..(SieveInterval(c) - 1) :
        /\ (m * KOf(c) - c.sieve_length + x) % q = 0
        /\ q > 2 => (m * KOf(c) - c.sieve_length + x) % 2 = 1}

(* The primes of the batch the next pass of the while loop collects. *)
NextBatchPrimes ==
    LET b == BatchScan(config, SMALL_THRESHOLD, it, temp_stats.next_print, << >>)
    IN  [primes |-> {b.p_and_r[i][1] : i \in DOMAIN b.p_and_r},
         len |-> Len(b.p_and_r), prime |-> b.prime]

(* One pass takes the set S of primes: it moves on to a later prime, its   *)
(* batch is S between the prime it started after and the prime it ends at, *)
(* each once, first is the least position of a multiple, and the bits it   *)
(* sets are those of the multiples of its batch.                           *)
BatchTakes(S) ==
    (pc = "small" /\ pc' \in {"small", "small_done"}) =>
        LET b == NextBatchPrimes
        IN  /\ prime' = b.prime
            /\ prime' > prime
            /\ b.primes = {q \in S : q > prime /\ q <= prime'}
            /\ b.len = Cardinality(b.primes)
            /\ \A mii \in 1..Len(valid_mi) :
                 LET m == config.mstart + valid_mi[mii]
                     row == RowOf(config, i_reindex_wheel, valid_mi[mii])
                     hit == {row[x] : x \in UNION {SmallMultiples(config, m, q) :
                                                      q \in b.primes}}
                 IN  /\ \A q \in b.primes :
                          LET first == SmallFirst(config, m, q, KOf(config) % q)
                          IN  /\ first \in 0..(q - 1)
                              /\ (m * K - SL + first) % q = 0
                     /\ \A idx \in DOMAIN composite[mii] :
                          composite'[mii][idx] = (composite[mii][idx] \/ idx \in hit)

(* C21 as stated: Phase A processes each prime p <= SMALL_THRESHOLD with   *)
(* D mod p != 0 and W mod p != 0 exactly once across the batches, with     *)
(* first the least position of a multiple, and crosses off its multiples.  *)
C21_PrimesNotOfDOnce ==
    [][BatchTakes(SmallNotOfD(config, SMALL_THRESHOLD))]_vars

(* C21: Phase A processes, for each valid m, each prime p <=               *)
(* SMALL_THRESHOLD that is neither a prime of K (p <= P with D mod p != 0) *)
(* nor a prime of the wheel exactly once across the batches, whether or    *)
(* not a batch ends at a print boundary; first is the least X in [0, p)    *)
(* with p dividing m K - SL + X, and the pass crosses off every position   *)
(* of [0, 2 SL] whose number is a multiple of p, for p > 2 an odd one;     *)
(* when the phase ends every such prime has been taken.                    *)
C21_PrimesNotOfKOnce ==
    /\ [][BatchTakes(SmallProcessed(config, SMALL_THRESHOLD))]_vars
    /\ [](pc = "small_done" => prime > SMALL_THRESHOLD)
    /\ [](pc \in {"small", "small_done"} =>
            \A q \in SmallProcessed(config, SMALL_THRESHOLD) :
                q <= prime =>
                    \A mii \in 1..Len(valid_mi) :
                        \A x \in SmallMultiples(config, config.mstart + valid_mi[mii], q) :
                            composite[mii][RowOf(config, i_reindex_wheel,
                                                 valid_mi[mii])[x]])

(* Phase A has ended after a batch that stopped at a print boundary with   *)
(* primes left to take, and a prime of K was passed over.                  *)
C21_Witness ==
    /\ pc = "small_done"
    /\ temp_stats.next_print > SetMin(SmallProcessed(config, SMALL_THRESHOLD))
    /\ Cardinality(SmallProcessed(config, SMALL_THRESHOLD)) >= 3
    /\ SmallNotOfD(config, SMALL_THRESHOLD) # SmallProcessed(config, SMALL_THRESHOLD)
    /\ Len(valid_mi) >= 2

(***************************************************************************)
(* Phase A: the multiples the parity step passes over.                     *)
(***************************************************************************)
(* The positions of the even multiples of q for m: those the crossoff loop *)
(* of a prime q > 2 does not visit.                                        *)
SmallSkipped(c, m, q) ==
    {x \in 0..(SieveInterval(c) - 1) :
        /\ (m * KOf(c) - c.sieve_length + x) % q = 0
        /\ (m * KOf(c) - c.sieve_length + x) % 2 = 0}

(* C22: during Phase A, for every valid m and every processed prime p > 2, *)
(* every position of a multiple of p whose number m K - SL + X is even,    *)
(* the first multiple included, has index 0 in the row of m (the sentinel, *)
(* where the positions not coprime to K and those the wheel eliminates     *)
(* go) and that bit is composite, for K odd and for K even.                *)
C22_SkippedMultiplesAlreadyComposite ==
    pc = "small" =>
        \A mii \in 1..Len(valid_mi) :
            \A q \in SmallProcessed(config, SMALL_THRESHOLD) \ {2} :
                \A x \in SmallSkipped(config, config.mstart + valid_mi[mii], q) :
                    LET row == RowOf(config, i_reindex_wheel, valid_mi[mii])
                    IN  /\ row[x] = 0
                        /\ composite[mii][row[x]]

(* Before the first pass, with K odd: the first multiple of a processed    *)
(* prime is even for some valid m and is passed over.                      *)
C22_Witness ==
    /\ pc = "small"
    /\ prime = 0
    /\ K % 2 = 1
    /\ \E mii \in 1..Len(valid_mi) :
         \E q \in SmallProcessed(config, SMALL_THRESHOLD) \ {2} :
             LET m == config.mstart + valid_mi[mii]
                 first == SmallFirst(config, m, q, K % q)
             IN  /\ first < SieveInterval(config)
                 /\ SmallFirstIsEven(config, m, first)
                 /\ first \in SmallSkipped(config, m, q)

(***************************************************************************)
(* The callbacks of the large primes.                                      *)
(***************************************************************************)
(* The primes the large loop has processed when it stands at prime.        *)
LargeDone ==
    {PrimeStream[i] : i \in {j \in 1..NumPrimes :
        /\ PrimeStream[j] > MEDIUM_THRESHOLD
        /\ PrimeStream[j] < prime}}

(* The callbacks of one prime that return before the write. *)
LargeDiscarded(c, cbs) ==
    {cbs[i] : i \in {j \in DOMAIN cbs : ~LargeCallbackWrites(c, cbs[j][1], cbs[j][2])}}

(* Every callback of the pass just made is at a position its prime         *)
(* divides, and each one discarded is for an m that is not valid or for a  *)
(* bit that was composite before the pass.                                 *)
LargeDiscardsLoseNothing ==
    (pc = "large" /\ callbacks' # callbacks /\ pc' # "abort") =>
        LET cbs == callbacks'.calls
        IN  /\ \A i \in DOMAIN cbs :
                 NumberAt(config, cbs[i][1], 2 * SL - cbs[i][2]) % callbacks'.prime = 0
            /\ \A cb \in LargeDiscarded(config, cbs) :
                 \/ m_not_coprime(config, cb[1])
                 \/ composite[m_reindex(valid_mi, cb[1])]
                             [RowOf(config, i_reindex_wheel, cb[1])[2 * SL - cb[2]]]

(* After the loop every position of a valid m whose number a processed     *)
(* large prime divides is composite.                                       *)
LargeDivisibleMarked ==
    pc = "after_loop" =>
        \A q \in LargeDone : \A mii \in 1..Len(valid_mi) :
            \A X \in 0..(2 * SL) :
                NumberAt(config, valid_mi[mii], X) % q = 0 =>
                    composite[mii][RowOf(config, i_reindex_wheel, valid_mi[mii])[X]]

WheelZero(c, r, x) ==
    \/ GCD(KOf(c), Abs(x - c.sieve_length)) > 1
    \/ GCD(reindex_m_wheel(c),
           (r * KOf(c) + x - c.sieve_length) % reindex_m_wheel(c)) > 1

(* C24: when the set-up is done and when the writer starts, for every      *)
(* wheel residue r with                                                    *)
(* gcd(r, W) = 1 and every x of [0, 2 SL], i_reindex_wheel[r][x] is 0 iff  *)
(* x - SL shares a factor with K or r K + (x - SL) shares one with W, and  *)
(* is otherwise the 1-based ordinal of x among the non-zero positions of   *)
(* r; every bitmap has the indices 0..count[m mod W], so the index of      *)
(* every position of a valid m is inside its bitmap.                       *)
C24_ReindexWithinBitmaps ==
    ((pc = "small" /\ prime = 0) \/ pc = "after_loop") =>
        /\ DOMAIN i_reindex_wheel =
               {r \in 0..(reindex_m_wheel(config) - 1) :
                   GCD(reindex_m_wheel(config), r) = 1}
        /\ \A r \in DOMAIN i_reindex_wheel :
             /\ DOMAIN i_reindex_wheel[r] = 0..(2 * SL)
             /\ \A x \in 0..(2 * SL) :
                  i_reindex_wheel[r][x] =
                      IF WheelZero(config, r, x) THEN 0
                      ELSE Cardinality({y \in 0..x : ~WheelZero(config, r, y)})
        /\ \A mii \in 1..Len(valid_mi) :
             LET row == RowOf(config, i_reindex_wheel, valid_mi[mii])
             IN  /\ (config.mstart + valid_mi[mii]) % reindex_m_wheel(config)
                        \in DOMAIN i_reindex_wheel
                 /\ DOMAIN composite[mii] = 0..WheelCount(row)
                 /\ \A x \in 0..(2 * SL) : row[x] \in DOMAIN composite[mii]

(* The sieve has run with a wheel of several residues: two valid m have    *)
(* rows that differ, and the greatest index of a bitmap is in use.         *)
C24_Witness ==
    /\ pc = "after_loop"
    /\ reindex_m_wheel(config) > 2
    /\ \E mii, mjj \in 1..Len(valid_mi) :
         RowOf(config, i_reindex_wheel, valid_mi[mii])
             # RowOf(config, i_reindex_wheel, valid_mi[mjj])
    /\ \E mii \in 1..Len(valid_mi) :
         \E x \in 0..(2 * SL) :
             /\ RowOf(config, i_reindex_wheel, valid_mi[mii])[x]
                    = WheelCount(RowOf(config, i_reindex_wheel, valid_mi[mii]))
             /\ composite[mii][RowOf(config, i_reindex_wheel, valid_mi[mii])[x]]

(***************************************************************************)
(* extended_record_high as a sum over the possible record gaps.            *)
(***************************************************************************)
(* prob_prime_nth_out of prob_extended_gap *)
prob_prime_nth_out == prob_nth_prime(prob_prime_coprime(config, est.N_log)).prime_nth

(* The possible record gaps G with SL < G - g < 2 SL and G - g coprime for *)
(* the residue r.                                                          *)
RecordGapsInReach(c, r, g, poss) ==
    {G \in {poss[k] : k \in DOMAIN poss} :
        /\ G - g > c.sieve_length
        /\ G - g < EXT_SIZE(c)
        /\ is_coprime_m(c, r)[G - g]}

(* The sum of prime_nth_out[rank(G - g)] over those gaps. *)
FullExtendedSum(c, r, g, poss, nth_out) ==
    SumFn([G \in RecordGapsInReach(c, r, g, poss) |->
              nth_prob_or_zero(nth_out, count_coprime_m(c, r, G - g))])

(* C25 as stated: for every residue r and every coprime prev-side distance *)
(* g of [1, SL], extended_record_high[r][g] is the sum of                  *)
(* prime_nth_out[rank(G - g)] over every possible record gap G with        *)
(* SL < G - g < 2 SL and G - g coprime for r; a gap G below g contributes  *)
(* nothing and does not end the scan.                                      *)
C25_ExtendedRecordHighIsFullSum ==
    TablesBuilt =>
        \A r \in DOMAIN est.gap_probs.extended_record_high :
            \A g \in 1..config.sieve_length :
                est.gap_probs.extended_record_high[r][g] # NaN =>
                    est.gap_probs.extended_record_high[r][g] =
                        FullExtendedSum(config, r, g, est.poss, prob_prime_nth_out)

(* What the loop computes: the sum when no possible record gap is below g, *)
(* and 0 when the smallest one is.                                         *)
C25_ExtendedRecordHighSumUnlessBelow ==
    TablesBuilt =>
        \A r \in DOMAIN est.gap_probs.extended_record_high :
            \A g \in 1..config.sieve_length :
                est.gap_probs.extended_record_high[r][g] # NaN =>
                    est.gap_probs.extended_record_high[r][g] =
                        IF est.poss[1] < g THEN 0
                        ELSE FullExtendedSum(config, r, g, est.poss, prob_prime_nth_out)

(***************************************************************************)
(* The window of the extended-squared loop.                                *)
(***************************************************************************)
(* The loop runs for every residue with its indices inside                 *)
(* extended_coprime and its assertions true; read_past_end is what the     *)
(* assertion evaluated one element past the end of the vector gives.       *)
WindowChecksHold(read_past_end) ==
    \A m \in coprime_ms_keys(config) :
        extended_extended_record(config, m, est.poss, est.records, est.N_log,
                                 read_past_end).ok

(* C26 as stated: when prob_extended_gap runs its extended-squared loop,   *)
(* for every residue and every coprime gap_prev of (SL, 2 SL) that reaches *)
(* the window checks the indices stay inside extended_coprime, the four    *)
(* window assertions hold, and min_e_c_i is 0 when max_e_c_i reaches 0.    *)
C26_WindowIndicesInside ==
    (est.pc = "setup" /\ ExtendedLookupsOK(config)) => WindowChecksHold(FALSE)

(* The assertions on elements of the vector hold: no check fails but       *)
(* through the read past the end.                                          *)
C26_WindowHoldsButPastEnd ==
    (est.pc = "setup" /\ ExtendedLookupsOK(config)) => WindowChecksHold(TRUE)

(***************************************************************************)
(* The direct part of run_gap_file (both primes inside the sieve).         *)
(***************************************************************************)
(* MISSING_GAPS_HIGH is 132,928 in the source; scaled as MISSING_GAPS_LOW. *)
MISSING_GAPS_HIGH == 66

(* min_gap_min_merit = ceil(min_merit * N_log), for whole min_merit *)
MinMerits == {1, 3, 5}
min_gap_min_merit(min_merit, N_log) == min_merit * N_log

(* The while loop on min_j: unknown_high[min_j - 1] is high[min_j]. *)
(* The index left where it is. *)
direct_min_j_skip(gap_low, high, min_j, min_interesting_gap) ==
    min_j

RECURSIVE direct_min_j(_, _, _, _)
direct_min_j(gap_low, high, min_j, min_interesting_gap) ==
    IF min_j > 0 /\ gap_low + high[min_j] >= min_interesting_gap
    THEN direct_min_j(gap_low, high, min_j - 1, min_interesting_gap)
    ELSE min_j

(* The two nested loops.  from_min_j is config.sieve_length >= 100'000.    *)
(* The result holds the four sums, prob_gap_norm as a function of the gap, *)
(* and below, whether every pair left of min_j was below                   *)
(* min_interesting_gap.                                                    *)
DirectLoop(combined_sieve, records, N_log, mgmm, min_record_gap, low, high, from_min_j) ==
    LET min_interesting_gap == Min(mgmm, min_record_gap)
        nc == Len(combined_sieve)
        max_i == Min(Len(low), nc)
        RECURSIVE Inner(_, _, _, _)
        Inner(i, j, max_j, acc) ==
            IF j >= max_j THEN acc
            ELSE LET gap == low[i + 1] + high[j + 1]
                     prob_this_gap == combined_sieve[i + j + 1]
                     rec == gap >= min_record_gap /\ records[gap] > N_log
                     mis == /\ rec
                            /\ MISSING_GAPS_LOW <= gap /\ gap <= MISSING_GAPS_HIGH
                            /\ records[gap] = GAP_INF
                 IN  Inner(i, j + 1, max_j,
                           [acc EXCEPT
                              !.norm = [acc.norm EXCEPT ![gap] = @ + prob_this_gap],
                              !.merit = IF gap >= mgmm THEN @ + prob_this_gap ELSE @,
                              !.record = IF rec THEN @ + prob_this_gap ELSE @,
                              !.missing = IF mis THEN @ + prob_this_gap ELSE @])
        RECURSIVE Outer(_, _, _)
        Outer(i, min_j, acc) ==
            IF i >= max_i THEN acc
            ELSE LET mj == direct_min_j(low[i + 1], high, min_j, min_interesting_gap)
                     max_j == Min(Len(high), nc - i)
                     acc1 == [acc EXCEPT
                                !.below = @ /\ \A j \in 0..(mj - 1) :
                                     low[i + 1] + high[j + 1] < min_interesting_gap,
                                !.skipped = @ + Min(mj, max_j)]
                 IN  Outer(i + 1, mj,
                           Inner(i, IF from_min_j THEN mj ELSE 0, max_j, acc1))
    IN  Outer(0, Len(high),
              [norm |-> [g \in 0..(2 * MAX_GAP) |-> 0], merit |-> 0, record |-> 0,
               missing |-> 0, below |-> TRUE, skipped |-> 0])

(* The sum of combined_sieve[i + j] over the index pairs with              *)
(* i + j < |combined_sieve| whose gap meets a condition.                   *)
DirectPairSum(combined_sieve, low, high, Cond(_)) ==
    LET pairs == {ij \in (0..(Len(low) - 1)) \X (0..(Len(high) - 1)) :
                     /\ ij[1] + ij[2] < Len(combined_sieve)
                     /\ Cond(low[ij[1] + 1] + high[ij[2] + 1])}
    IN  SumFn([ij \in pairs |-> combined_sieve[ij[1] + ij[2] + 1]])

(* The line est.last, run with the inner loop started at min_j or at 0. *)
LastDirect(min_merit, from_min_j) ==
    DirectLoop(est.gap_probs.combined_sieve, est.records, est.N_log,
               min_gap_min_merit(min_merit, est.N_log), est.poss[1],
               est.last.low, est.last.high, from_min_j)

LineDone == est.pc = "run" /\ est.n > 0

ALL_TEN_UNITS == ALL_TEN_LIMIT \div NEXT_MULT_SMALL
MAX_MULT_UNITS == ALL_TEN_UNITS * 100

(* The schedule never capped by LAST_PRIME. *)
increment_print_uncapped(st, p, last_prime, all_ten_limit, max_mult) ==
    IF p >= st.next_print
    THEN LET all_ten == IF p > all_ten_limit THEN 1 ELSE 0
             next_next_mult == (5 + 4 * all_ten) * st.next_mult
             grow == next_next_mult <= max_mult /\ st.next_print = next_next_mult
             mult == IF grow THEN st.next_mult * 10 ELSE st.next_mult
             base == IF grow THEN 0 ELSE st.next_print
         IN  [next_print |-> base + mult, next_mult |-> mult]
    ELSE st

(* The first block of method2_increment_print with max_mult and the limit  *)
(* of all_ten as parameters.                                               *)
increment_print(st, p, last_prime, all_ten_limit, max_mult) ==
    IF p >= st.next_print
    THEN LET all_ten == IF p > all_ten_limit THEN 1 ELSE 0
             next_next_mult == (5 + 4 * all_ten) * st.next_mult
             grow == next_next_mult <= max_mult /\ st.next_print = next_next_mult
             mult == IF grow THEN st.next_mult * 10 ELSE st.next_mult
             base == IF grow THEN 0 ELSE st.next_print
         IN  [next_print |-> Min(base + mult, last_prime), next_mult |-> mult]
    ELSE st

(* LAST_PRIME in units, and the first prime of the loop *)
SchedLastPrimes == {3, 47, 523, 100003, 3500001, 25000007, 250000007}
SchedFirstPrimes == {1, 7, 60, 100001}
SchedLast == config.max_prime

InitPrint ==
    /\ store = << >>
    /\ est = << >>
    /\ m1 = << >>
    /\ codec = << >>
    /\ \E last \in SchedLastPrimes : config = [max_prime |-> last]
    /\ pc = "sched"
    /\ exit_code = -1
    /\ valid_mi = << >>
    /\ i_reindex_wheel = << >>
    /\ composite = << >>
    /\ thresholds = << 0, 0 >>
    /\ it = 1
    /\ prime \in {q \in SchedFirstPrimes : q <= SchedLast}
    /\ \E threshold \in {NEXT_MULT_THRESHOLD, NEXT_MULT_THRESHOLD + 1} :
          stats = [next_print |-> 0,
                   next_mult |-> NewStats(threshold).next_mult \div NEXT_MULT_SMALL]
    /\ temp_stats = NewStats(0)
    /\ g_control_c = FALSE
    /\ handler = FALSE
    /\ signals = 0
    /\ flag_reads = {}
    /\ callbacks = [prime |-> 0, calls |-> << >>]
    /\ unknown_file = << >>
    /\ lines = << >>
    /\ range_row = << >>
    /\ reader = [pc |-> "idle"]

(* One pass of a sieve loop at prime: the print block, then the next prime *)
(* of the loop.                                                            *)
SchedPrime ==
    /\ pc = "sched"
    /\ LET st1 == increment_print(stats, prime, SchedLast, ALL_TEN_UNITS, MAX_MULT_UNITS)
       IN  /\ stats' = st1
           /\ IF prime = SchedLast
              THEN pc' = "sched_done" /\ prime' = prime
              ELSE /\ pc' = pc
                   /\ \E q \in {Min(st1.next_print, SchedLast),
                               Min(st1.next_print + 1, SchedLast)} \cup
                               (IF st1.next_print <= prime THEN {prime + 1} ELSE {}) :
                         /\ q > prime
                         /\ q <= SchedLast
                         /\ prime' = q
    /\ UNCHANGED << store, est, config, exit_code, valid_mi, i_reindex_wheel, composite,
                    thresholds, it, temp_stats, g_control_c, handler, signals,
                    flag_reads, callbacks, unknown_file, lines, range_row,
                    m1, reader, codec >>

NextPrint == SchedPrime

SpecPrint == InitPrint /\ [][NextPrint]_vars

(* The pass at prime calls method2_increment_print. *)
SchedCall == pc = "sched" /\ prime >= stats.next_print

(* 5, or 9 once prime > 10^9 *)
SchedLimit(p) == IF p > ALL_TEN_UNITS THEN 9 ELSE 5

(* next_print is 0 before the first call, then LAST_PRIME or 1x..5x of the *)
(* multiplier (up to 9x once prime > 10^9), or a multiple of the largest   *)
(* multiplier.                                                             *)
OnSchedule ==
    \/ stats.next_print = 0
    \/ stats.next_print = SchedLast
    \/ \E k \in 1..9 : /\ stats.next_print = k * stats.next_mult
                       /\ k > 5 => prime > ALL_TEN_UNITS
    \/ stats.next_mult = MAX_MULT_UNITS /\ stats.next_print % stats.next_mult = 0

(* One call: the schedule grows unless capped; the multiplier grows        *)
(* tenfold only from 5x (9x) of itself, to its 1x.                         *)
SchedCallStep ==
    SchedCall =>
       /\ stats'.next_print > stats.next_print \/ stats'.next_print = SchedLast
       /\ stats'.next_print <= SchedLast
       /\ stats'.next_mult \in {stats.next_mult, 10 * stats.next_mult}
       /\ stats'.next_mult # stats.next_mult =>
              /\ stats.next_print = SchedLimit(prime) * stats.next_mult
              /\ stats'.next_print \in {stats'.next_mult, SchedLast}
       /\ (stats'.next_mult = stats.next_mult /\ stats'.next_print # SchedLast) =>
              stats'.next_print = stats.next_print + stats.next_mult

(* C28: next_print is strictly increasing from one print call to the next  *)
(* until it is capped, never above LAST_PRIME, runs through 1x..5x of the   *)
(* multiplier (1x..9x once prime > 10^9) before the multiplier grows       *)
(* tenfold, up to 10^11, and the pass at prime = LAST_PRIME is at a print   *)
(* boundary.                                                               *)
C28_PrintSchedule ==
    /\ [][SchedCallStep]_vars
    /\ [](pc \in {"sched", "sched_done"} =>
             /\ OnSchedule
             /\ stats.next_print <= SchedLast
             /\ stats.next_mult <= MAX_MULT_UNITS)
    /\ []((pc = "sched" /\ prime = SchedLast) => prime >= stats.next_print)

(* The schedule is at 9x of 10^10, about to grow to 10^11. *)
C28_Witness ==
    /\ pc = "sched"
    /\ SchedCall
    /\ prime > ALL_TEN_UNITS
    /\ stats.next_mult * 10 = MAX_MULT_UNITS
    /\ stats.next_print = 9 * stats.next_mult

(* In the sieve itself: the pass of the medium or the large loop at        *)
(* LAST_PRIME is at a print boundary of stats.                             *)
C28_SieveBoundaryAtLastPrime ==
    (pc \in {"medium", "large"} /\ prime = LAST_PRIME) => prime >= stats.next_print

(***************************************************************************)
(* The lines the sieve writes, read by run_gap_file.                       *)
(***************************************************************************)
(* extended_record_high.at(m_high) and .at(wheel_d - m_high) for the line  *)
(* of mi: both keys are in the map.                                        *)
LineKeysDefined(c, mi) ==
    LET m_high == (c.mstart + mi) % wheel_d(c)
    IN  /\ ExtendedLookupsOK(c)
        /\ m_high \in coprime_ms_keys(c)
        /\ (wheel_d(c) - m_high) \in coprime_ms_keys(c)

(* The entries run_gap_file reads for a line: extended_record_high[g] for  *)
(* the offsets of the low side, extended_record_low[g] for the high side.  *)
LineEntries(c, l, poss, N_log) ==
    LET m_high == (c.mstart + l.mi) % wheel_d(c)
        nth_out == prob_nth_prime(prob_prime_coprime(c, N_log)).prime_nth
        extended_record_high == prob_extended_record(c, m_high, poss, nth_out)
        extended_record_low ==
            prob_extended_record(c, wheel_d(c) - m_high, poss, nth_out)
    IN  {extended_record_high[l.low[i]] : i \in DOMAIN l.low}
            \cup {extended_record_low[l.high[i]] : i \in DOMAIN l.high}

(* assert(conditional_prob >= 0); assert(conditional_prob < 1); NaN fails  *)
(* both.                                                                   *)
ConditionalProbOK(v) == v # NaN /\ v >= 0 /\ v < PROB_ONE

(* The record tables and logs the lines are read with. *)
LineReadInputs ==
    {<< N_log, rows >> : N_log \in NLogs,
                         rows \in {{}, {GapRow(g, 100) : g \in Evens(2, 6)}}}

PossOf(c, in) == load_possible_records(in[1], get_record_gaps(c, in[2]))

(* The set-up came through for the residues of the line. *)
LineSetupPassed(c, l, in) ==
    LET m_high == (c.mstart + l.mi) % wheel_d(c)
        nth_out == prob_nth_prime(prob_prime_coprime(c, in[1])).prime_nth
    IN  /\ PossOf(c, in) # << >>
        /\ ExtendedRecordAssertOK(c, m_high, PossOf(c, in), nth_out)
        /\ ExtendedRecordAssertOK(c, wheel_d(c) - m_high, PossOf(c, in), nth_out)

(* Every line of the file finds its tables and reads entries in [0, 1). *)
LinesReadable(ls) ==
    \A k \in DOMAIN ls :
        /\ LineKeysDefined(config, ls[k].mi)
        /\ \A in \in LineReadInputs :
              LineSetupPassed(config, ls[k], in) =>
                  \A v \in LineEntries(config, ls[k], PossOf(config, in), in[1]) :
                      ConditionalProbOK(v)

(* C29 as stated: for every line the sieve writes, every offset of the low *)
(* side indexes a defined entry of extended_record_high[m mod W] and every *)
(* offset of the high side one of extended_record_high[W - (m mod W)],     *)
(* with a value in [0, 1).                                                 *)
C29_LinesFindDefinedEntries ==
    pc = "saved" => LinesReadable(lines)

(* Where the wheel of the estimator is above 1, the lines find their       *)
(* tables and no entry they read is NaN or outside [0, 1).                 *)
C29_LinesReadableWheelAboveOne ==
    (pc = "saved" /\ wheel_d(config) > 1) => LinesReadable(lines)

(***************************************************************************)
(* Method 1: the queues of the large primes.                               *)
(***************************************************************************)
(* The (prime, base_r) pairs of the primes above SMALL_PRIME_LIMIT_METHOD1 *)
M1LargePairs(c) ==
    {<< M1LargePrimes(c)[i], BaseR(c, M1LargePrimes(c)[i]) >> :
        i \in DOMAIN M1LargePrimes(c)}

(* mi is valid and the prime divides a number of its interval. *)
M1Qualifies(c, mi, pr) ==
    GCD(c.mstart + mi, c.d) = 1 /\ M1Mult(c, mi, pr) <= 2 * c.sieve_length

(* The places where pr is held: << mi, position in large_prime_queue[mi] >> *)
M1HeldAt(queue, pr) ==
    {<< mi, k >> \in (DOMAIN queue) \X (1..Cardinality(M1LargePairs(config))) :
        k <= Len(queue[mi]) /\ queue[mi][k] = pr}

M1QueueTotal(queue) ==
    SumFn([mi \in DOMAIN queue |-> Len(queue[mi])])

(* At the top of the loop at m1.mi: every large prime is held once, at the *)
(* least mi from the current one on that qualifies, or nowhere when there  *)
(* is none; nothing else is held; the counter is the total length.         *)
M1QueuesInOrder ==
    /\ \A pr \in M1LargePairs(config) :
          LET Q == {mi \in m1.mi..(config.minc - 1) : M1Qualifies(config, mi, pr)}
          IN  IF Q = {} THEN M1HeldAt(m1.queue, pr) = {}
              ELSE \E k \in 1..Len(m1.queue[SetMin(Q)]) :
                       M1HeldAt(m1.queue, pr) = {<< SetMin(Q), k >>}
    /\ \A mi \in DOMAIN m1.queue :
          /\ SeqRange(m1.queue[mi]) \subseteq M1LargePairs(config)
          /\ GCD(config.mstart + mi, config.d) > 1 => m1.queue[mi] = << >>
    /\ m1.s_large_primes_rem = M1QueueTotal(m1.queue)

(* A pass of the loop for a valid m marks the number every large prime     *)
(* divides in the interval of m, and no pass fails an assertion.           *)
M1PassApplies ==
    (pc = "m1_loop" /\ m1' # m1) =>
       /\ pc' # "abort"
       /\ GCD(config.mstart + m1.mi, config.d) = 1 =>
            \A pr \in M1LargePairs(config) : \A x \in 0..config.sieve_length :
               LET N == (config.mstart + m1.mi) * K
               IN  /\ (N + pr[1] - x) % pr[1] = 0 => composite'[1][x]
                   /\ (N + x) % pr[1] = 0 => composite'[2][x]

=============================================================================
